---- MODULE Spec2Model ----
(***************************************************************************)
(* Model of the EdXML -> Markdown conversion code of edstem-download.      *)
(*                                                                         *)
(* Text is a sequence of atoms.  An atom is a one-character string, or a   *)
(* multi-character string standing for a run of characters that none of    *)
(* the modelled patterns can split (a complete tag, an entity, a URL, the  *)
(* fixed prefix of a placeholder token).                                   *)
(*                                                                         *)
(* Three machines share the module:                                        *)
(*   - the AST pipeline   (converter/ast_parser.py, ast_renderer_md.py)    *)
(*   - the regex pipeline (converters.py, edxml_to_markdown)               *)
(*   - the post-processor applied to its own output                        *)
(* Each has its own specification; Spec is their union.                    *)
(***************************************************************************)
EXTENDS Integers, Sequences, FiniteSets, TLC

VARIABLES
    xml,        \* AST pipeline: the input, a sequence of XML tokens
    astPc,      \* AST pipeline: position in parse -> render -> convert -> post-process
    parsePath,  \* which branch of parse_edxml_to_ast produced the tree
    ast,        \* the Node tree returned by parse_edxml_to_ast
    htmlText,   \* the markup returned by ast_to_html
    convIn,     \* the markup handed to the external converter
    convMode,   \* what the external converter does to the text it receives
    mdText,     \* the Markdown (converter output, then post-processed)
    legXml,     \* regex pipeline: the input of edxml_to_markdown, as XML tokens
    legPc,      \* regex pipeline: position in edxml_to_markdown
    htmlLike,   \* html_like, the markup handed to the converter, as tokens
    webBlocks,  \* web_snippet_blocks: placeholder -> fragment, in insertion order
    spoilerBlocks, \* spoiler_blocks: placeholder -> fragment, in insertion order
    legConv,    \* what the converter did in this call
    legClean,   \* md after the line cleanup, before the placeholders are replaced
    legMd,      \* md
    postIn,     \* post-processor: the Markdown it is given
    postPc,     \* post-processor: how often it has run
    postOnce,   \* _post_process_markdown(postIn)
    postTwice,  \* _post_process_markdown(postOnce)
    renTree,    \* renderer called twice: the Node tree given to both calls
    renPc,      \* renderer called twice: how many calls have returned
    renFirst,   \* what the first ast_to_html(renTree) returned
    renSecond,  \* what the second ast_to_html(renTree) returned
    imgMode,    \* image resolver: mode, as make_image_resolver normalised it
    imgDirs,    \* image resolver: which of image_dir and markdown_dir were given
    imgCache,   \* image resolver: cache, src -> result, of the closure
    imageCache, \* EdClient._image_cache: src -> (content, Content-Type)
    imgLog,     \* the calls made in this run, oldest first, with their outcomes
    shiftIn,    \* shift_markdown_headings: md
    shiftOffset, \* shift_markdown_headings: offset
    shiftPc,    \* shift_markdown_headings: whether it has returned
    shiftOut,   \* what shift_markdown_headings(md, offset) returned
    reqImpl,    \* request(): the file whose request() runs
    reqRetries, \* request(): retries
    reqAttempt, \* request(): attempt, the loop variable
    reqPc,      \* request(): in the loop, returned, or raised
    reqLog,     \* request(): what each HTTP attempt met, oldest first
    reqError,   \* request(): last_exception, by the name of its type
    cfg,        \* get_image_mode: cfg, the configuration it is given
    cfgPc,      \* get_image_mode: whether the call has ended
    cfgOut,     \* get_image_mode: what the call returned, or that it raised
    raceDirs,   \* two threads on one resolver: which directories the resolver was given
    raceSrc,    \* two threads on one resolver: the src of each thread's call
    racePc,     \* two threads on one resolver: where each thread is in resolve
    raceGot,    \* two threads on one resolver: each thread's download
    raceFile,   \* two threads on one resolver: each thread's filename
    raceOut,    \* two threads on one resolver: what each call returned
    raceCache,  \* two threads on one resolver: cache, shared by both
    raceImages, \* two threads on one resolver: EdClient._image_cache
    raceDisk,   \* two threads on one resolver: image_dir, file name -> whose image
    listIn,     \* _convert_lists: text, as tokens
    listPc,     \* _convert_lists: whether it has returned
    listOut,    \* what _convert_lists(text) returned, as tokens
    nameIn,     \* safe_filename: name
    namePc,     \* safe_filename: whether it has returned
    nameOut,    \* what safe_filename(name) returned
    saveImpl,   \* save_lesson_markdown: the file whose function runs
    saveMap,    \* save_lesson_markdown: module_name_map
    saveLog,    \* the lessons saved so far, with the path and text of each
    saveDisk,   \* course_root: file path -> text last written there
    fetchSlides, \* fetch_lesson_content: slides, as the API listed them
    fetchI,     \* fetch_lesson_content: the position of s in slides
    fetchPc,    \* fetch_lesson_content: in the loop, returned, or raised
    fetchOut,   \* fetch_lesson_content: processed_slides
    fetchError  \* fetch_lesson_content: the exception that ended the call

astVars == <<xml, astPc, parsePath, ast, htmlText, convIn, convMode, mdText>>
legVars == <<legXml, legPc, htmlLike, webBlocks, spoilerBlocks, legConv, legClean, legMd>>
postVars == <<postIn, postPc, postOnce, postTwice>>
renVars == <<renTree, renPc, renFirst, renSecond>>
imgVars == <<imgMode, imgDirs, imgCache, imageCache, imgLog>>
shiftVars == <<shiftIn, shiftOffset, shiftPc, shiftOut>>
reqVars == <<reqImpl, reqRetries, reqAttempt, reqPc, reqLog, reqError>>
extVars == <<renVars, imgVars, shiftVars, reqVars>>
cfgVars == <<cfg, cfgPc, cfgOut>>
raceVars == <<raceDirs, raceSrc, racePc, raceGot, raceFile, raceOut, raceCache, raceImages, raceDisk>>
listVars == <<listIn, listPc, listOut>>
nameVars == <<nameIn, namePc, nameOut>>
saveVars == <<saveImpl, saveMap, saveLog, saveDisk>>
fetchVars == <<fetchSlides, fetchI, fetchPc, fetchOut, fetchError>>
auxVars == <<cfgVars, raceVars, listVars, nameVars, saveVars, fetchVars>>
notCfg == <<astVars, legVars, postVars, extVars, raceVars, listVars, nameVars, saveVars, fetchVars>>
notRace == <<astVars, legVars, postVars, extVars, cfgVars, listVars, nameVars, saveVars, fetchVars>>
notList == <<astVars, legVars, postVars, extVars, cfgVars, raceVars, nameVars, saveVars, fetchVars>>
notName == <<astVars, legVars, postVars, extVars, cfgVars, raceVars, listVars, saveVars, fetchVars>>
notSave == <<astVars, legVars, postVars, extVars, cfgVars, raceVars, listVars, nameVars, fetchVars>>
notFetch == <<astVars, legVars, postVars, extVars, cfgVars, raceVars, listVars, nameVars, saveVars>>
vars == <<astVars, legVars, postVars, extVars, auxVars>>

(***************************************************************************)
(* Bounds of the model.                                                    *)
(***************************************************************************)
MaxTokens == 6     \* longest well-formed input of the AST pipeline
MaxRaw == 3        \* longest arbitrary token sequence of the AST pipeline
MaxFiles == 2      \* most files in a web-snippet of the AST pipeline
MaxBlocks == 3     \* most blocks in an input of the regex pipeline
MaxRun == 11       \* longest run of web-snippets in an input of the regex pipeline
MaxPieces == 3     \* most pieces in an input of the post-processor
MaxFenced == 2     \* most pieces inside a fenced block given to the post-processor
MaxCalls == 3      \* most calls made on one image resolver
MaxShiftLen == 5   \* longest arbitrary text given to shift_markdown_headings
MaxOffset == 2     \* largest offset given to shift_markdown_headings
MaxRetries == 3    \* largest retries given to request()
MaxModeLen == 3    \* longest image_mode string of a configuration
MaxCached == 1     \* most sources a shared resolver has resolved before
MaxListLen == 4    \* longest token sequence given to _convert_lists
MaxNameLen == 4    \* longest name given to safe_filename
MaxLessons == 2    \* most lessons saved in one export
MaxSlides == 3     \* most slides in a lesson

(***************************************************************************)
(* Text helpers (Python str methods on sequences of atoms).                *)
(***************************************************************************)
None == "<None>"

SetMin(S) == CHOOSE m \in S : \A n \in S : m <= n
SetMax(S) == CHOOSE m \in S : \A n \in S : n <= m

IsSpaceChar(c) == c \in {" ", "\n", "\t"}

\* str.isspace-like: every atom is whitespace (true of the empty text too)
AllSpace(s) == \A i \in 1..Len(s) : IsSpaceChar(s[i])

\* str.strip()
Strip(s) ==
    LET keep == {i \in 1..Len(s) : ~IsSpaceChar(s[i])}
    IN  IF keep = {} THEN <<>> ELSE SubSeq(s, SetMin(keep), SetMax(keep))

\* str.rstrip()
RStrip(s) ==
    LET keep == {i \in 1..Len(s) : ~IsSpaceChar(s[i])}
    IN  IF keep = {} THEN <<>> ELSE SubSeq(s, 1, SetMax(keep))

\* str.strip("\n")
StripNewlines(s) ==
    LET keep == {i \in 1..Len(s) : s[i] # "\n"}
    IN  IF keep = {} THEN <<>> ELSE SubSeq(s, SetMin(keep), SetMax(keep))

\* s[i:] starts with p
StartsWithAt(s, i, p) ==
    /\ i + Len(p) - 1 <= Len(s)
    /\ \A j \in 1..Len(p) : s[i + j - 1] = p[j]

\* p in s
Contains(s, p) == \E i \in 1..(Len(s) + 1) : StartsWithAt(s, i, p)

RECURSIVE ReplaceFrom(_, _, _, _)
ReplaceFrom(s, i, old, new) ==
    LET hits == {j \in i..Len(s) : StartsWithAt(s, j, old)}
    IN  IF hits = {} THEN SubSeq(s, i, Len(s))
        ELSE LET j == SetMin(hits)
             IN  SubSeq(s, i, j - 1) \o new \o ReplaceFrom(s, j + Len(old), old, new)

\* str.replace(old, new), old non-empty: leftmost, non-overlapping occurrences
Replace(s, old, new) == ReplaceFrom(s, 1, old, new)

RECURSIVE Flatten(_)
\* "".join(parts)
Flatten(parts) ==
    IF parts = <<>> THEN <<>> ELSE Head(parts) \o Flatten(Tail(parts))

RECURSIVE JoinWith(_, _)
\* sep.join(parts)
JoinWith(parts, sep) ==
    IF parts = <<>> THEN <<>>
    ELSE IF Len(parts) = 1 THEN parts[1]
    ELSE parts[1] \o sep \o JoinWith(Tail(parts), sep)

RECURSIVE SplitLinesFrom(_, _, _)
SplitLinesFrom(s, i, cur) ==
    IF i > Len(s) THEN (IF cur = <<>> THEN <<>> ELSE <<cur>>)
    ELSE IF s[i] = "\n" THEN <<cur>> \o SplitLinesFrom(s, i + 1, <<>>)
    ELSE SplitLinesFrom(s, i + 1, Append(cur, s[i]))

\* str.splitlines(): no empty last line after a final newline
SplitLines(s) == SplitLinesFrom(s, 1, <<>>)

MapSeq(s, F(_)) == [i \in 1..Len(s) |-> F(s[i])]

(***************************************************************************)
(* html.escape / html.unescape and the XML parser's entity decoding, on    *)
(* atoms: an entity is one atom.                                           *)
(***************************************************************************)
EscapeChar(c) ==
    CASE c = "&" -> "&amp;"
      [] c = "<" -> "&lt;"
      [] c = ">" -> "&gt;"
      [] c = "\"" -> "&quot;"
      [] c = "'" -> "&#x27;"
      [] OTHER -> c

html_escape(s) == MapSeq(s, EscapeChar)

UnescapeChar(c) ==
    CASE c = "&amp;" -> "&"
      [] c = "&lt;" -> "<"
      [] c = "&gt;" -> ">"
      [] c = "&quot;" -> "\""
      [] c = "&#x27;" -> "'"
      [] c = "&#39;" -> "'"
      [] OTHER -> c

html_unescape(s) == MapSeq(s, UnescapeChar)

\* the name as written, with no case folding
KeepCase(name) == name

\* str.lower() on the tag and attribute names of the model's vocabulary
Lower(name) ==
    CASE name = "Bold" -> "bold"
      [] name = "PARAGRAPH" -> "paragraph"
      [] name = "Level" -> "level"
      [] name = "Language" -> "language"
      [] name = "SRC" -> "src"
      [] OTHER -> name

(***************************************************************************)
(* XML tokens: what the input string is made of.                           *)
(***************************************************************************)
Open(t, a) == [k |-> "open", tag |-> t, attrib |-> a, text |-> <<>>]
Close(t) == [k |-> "close", tag |-> t, attrib |-> <<>>, text |-> <<>>]
Text(s) == [k |-> "text", tag |-> "", attrib |-> <<>>, text |-> s]
\* markup that is not well-formed at the character level: "<a", a bare "&"
Bad == [k |-> "bad", tag |-> "", attrib |-> <<>>, text |-> <<>>]

(***************************************************************************)
(* xml.etree.ElementTree.fromstring: expat events fed to a TreeBuilder.    *)
(* An Element has tag, attrib, text, children and tail.                    *)
(***************************************************************************)
Element(t, a) ==
    [tag |-> t, attrib |-> a, text |-> <<>>, children |-> <<>>, tail |-> <<>>]

XmlStart == [ok |-> TRUE, stack |-> <<>>, root |-> <<>>]

XmlFail(st) == [st EXCEPT !.ok = FALSE]

\* character data inside the element on top of the stack: its text while it
\* has no child yet, the tail of its last child afterwards
AddData(el, data) ==
    IF el.children = <<>>
    THEN [el EXCEPT !.text = @ \o data]
    ELSE [el EXCEPT !.children[Len(el.children)].tail = @ \o data]

\* the attributes of a start tag, their values with the entities decoded
XmlAttrib(attrib) ==
    [i \in 1..Len(attrib) |-> <<attrib[i][1], html_unescape(attrib[i][2])>>]

XmlStep(st, tok) ==
    LET n == Len(st.stack) IN
    IF ~st.ok THEN st
    ELSE CASE tok.k = "bad" -> XmlFail(st)
      [] tok.k = "open" ->
            IF n = 0 /\ st.root # <<>>
            THEN XmlFail(st)     \* junk after document element
            ELSE [st EXCEPT !.stack = Append(@, Element(tok.tag, XmlAttrib(tok.attrib)))]
      [] tok.k = "close" ->
            IF n = 0 \/ st.stack[n].tag # tok.tag
            THEN XmlFail(st)     \* mismatched tag
            ELSE IF n = 1
                 THEN [st EXCEPT !.stack = <<>>, !.root = <<st.stack[1]>>]
                 ELSE [st EXCEPT
                          !.stack = [SubSeq(st.stack, 1, n - 1) EXCEPT
                                       ![n - 1].children = Append(@, st.stack[n])]]
      [] OTHER ->                \* text
            IF n = 0
            THEN (IF AllSpace(tok.text) THEN st ELSE XmlFail(st))
            ELSE [st EXCEPT !.stack[n] = AddData(@, html_unescape(tok.text))]

RECURSIVE XmlFeed(_, _, _)
XmlFeed(st, toks, i) ==
    IF i > Len(toks) THEN st ELSE XmlFeed(XmlStep(st, toks[i]), toks, i + 1)

\* ET.fromstring(xml): ok = FALSE stands for ET.ParseError
fromstring(toks) ==
    LET st == XmlFeed(XmlStart, toks, 1)
    IN  IF st.ok /\ st.stack = <<>> /\ st.root # <<>>
        THEN [ok |-> TRUE, root |-> st.root]
        ELSE [ok |-> FALSE, root |-> <<>>]

(***************************************************************************)
(* converter/ast_parser.py                                                 *)
(***************************************************************************)
EmptyDict == <<>>

Node(kind, tag, attrs, children, text, id) ==
    [kind |-> kind, tag |-> tag, attrs |-> attrs, children |-> children,
     text |-> text, id |-> id]

\* no tree: parse_edxml_to_ast has not returned
NoNode == Node("none", None, EmptyDict, <<>>, <<>>, 0)

TextNode(text, id) == Node("text", None, EmptyDict, <<>>, text, id)

\* A dict is a sequence of <<key, value>> pairs with distinct keys, in
\* insertion order.
DictKeys(d) == {d[i][1] : i \in 1..Len(d)}

\* dict.get(key, default)
Get(d, key, default) ==
    IF key \in DictKeys(d)
    THEN d[CHOOSE i \in 1..Len(d) : d[i][1] = key][2]
    ELSE default

\* d[key] = value: a new key goes last, a known key keeps its place
DictSet(d, key, value) ==
    IF key \in DictKeys(d)
    THEN [i \in 1..Len(d) |-> IF d[i][1] = key THEN <<key, value>> ELSE d[i]]
    ELSE Append(d, <<key, value>>)

RECURSIVE AttrDictFrom(_, _, _)
AttrDictFrom(attrib, i, d) ==
    IF i > Len(attrib) THEN d
    ELSE AttrDictFrom(attrib, i + 1, DictSet(d, Lower(attrib[i][1]), attrib[i][2]))

\* {k.lower(): v for k, v in elem.attrib.items()}
AttrDict(attrib) == AttrDictFrom(attrib, 1, <<>>)

RECURSIVE _elem_to_node(_, _)
RECURSIVE ChildrenToNodes(_, _, _, _)

\* the loop with its two appends swapped: the tail before the child
TailFirst(kids, i, acc, nxt) ==
    IF i > Len(kids) THEN [nodes |-> acc, nxt |-> nxt]
    ELSE LET sub == _elem_to_node(kids[i], nxt)
         IN  IF kids[i].tail # <<>>
             THEN ChildrenToNodes(kids, i + 1,
                      Append(Append(acc, TextNode(kids[i].tail, sub.nxt)), sub.node),
                      sub.nxt + 1)
             ELSE ChildrenToNodes(kids, i + 1, Append(acc, sub.node), sub.nxt)

\* the loop "for child in elem": children i.. of elem, appended to acc; every
\* Node(...) call builds a new object, numbered by the counter nxt
ChildrenToNodes(kids, i, acc, nxt) ==
    IF i > Len(kids) THEN [nodes |-> acc, nxt |-> nxt]
    ELSE LET sub == _elem_to_node(kids[i], nxt)
             withChild == Append(acc, sub.node)
         IN  IF kids[i].tail # <<>>
             THEN ChildrenToNodes(kids, i + 1,
                      Append(withChild, TextNode(kids[i].tail, sub.nxt)),
                      sub.nxt + 1)
             ELSE ChildrenToNodes(kids, i + 1, withChild, sub.nxt)

_elem_to_node(elem, nxt) ==
    LET first == IF elem.text # <<>>
                 THEN [nodes |-> <<TextNode(elem.text, nxt)>>, nxt |-> nxt + 1]
                 ELSE [nodes |-> <<>>, nxt |-> nxt]
        rest == ChildrenToNodes(elem.children, 1, first.nodes, first.nxt)
    IN  [node |-> Node("element", Lower(elem.tag), AttrDict(elem.attrib),
                       rest.nodes, <<>>, rest.nxt),
         nxt |-> rest.nxt + 1]

Wrapped(toks) == <<Open("document", <<>>)>> \o toks \o <<Close("document")>>

\* path: which return (or the uncaught ParseError of line 52) ended the call
parse_edxml_to_ast(toks) ==
    IF toks = <<>>
    THEN [path |-> "empty",
          node |-> Node("element", "document", EmptyDict, <<>>, <<>>, 1)]
    ELSE LET strict == fromstring(toks) IN
         IF strict.ok
         THEN [path |-> "strict", node |-> _elem_to_node(strict.root[1], 1).node]
         ELSE LET retry == fromstring(Wrapped(toks)) IN
              IF retry.ok
              THEN [path |-> "wrapped",
                    node |-> _elem_to_node(retry.root[1], 1).node]
              ELSE [path |-> "raised", node |-> NoNode]

(***************************************************************************)
(* converter/ast_renderer_md.py: the renderer.                             *)
(***************************************************************************)
DigitAtoms == <<"0", "1", "2", "3", "4", "5", "6", "7", "8", "9">>

IsDigit(c) == \E d \in 1..10 : DigitAtoms[d] = c

DigitVal(c) == (CHOOSE d \in 1..10 : DigitAtoms[d] = c) - 1

RECURSIVE IntText(_)
\* str(n), n >= 0
IntText(n) ==
    IF n < 10 THEN <<DigitAtoms[n + 1]>>
    ELSE Append(IntText(n \div 10), DigitAtoms[(n % 10) + 1])

RECURSIVE DigitsVal(_, _)
DigitsVal(s, acc) ==
    IF s = <<>> THEN acc
    ELSE IF Head(s) = "_" THEN DigitsVal(Tail(s), acc)
    ELSE DigitsVal(Tail(s), 10 * acc + DigitVal(Head(s)))

\* the literals int() accepts: digits, single underscores between digits
IsIntBody(s) ==
    /\ s # <<>>
    /\ \A i \in 1..Len(s) : IsDigit(s[i]) \/ s[i] = "_"
    /\ IsDigit(s[1]) /\ IsDigit(s[Len(s)])
    /\ \A i \in 1..(Len(s) - 1) : ~(s[i] = "_" /\ s[i + 1] = "_")

\* int(text): ok = FALSE stands for ValueError
int(text) ==
    LET t == Strip(text)
        signed == t # <<>> /\ t[1] \in {"+", "-"}
        body == IF signed THEN Tail(t) ELSE t
    IN  IF IsIntBody(body)
        THEN [ok |-> TRUE,
              val |-> IF signed /\ t[1] = "-" THEN 0 - DigitsVal(body, 0)
                      ELSE DigitsVal(body, 0)]
        ELSE [ok |-> FALSE, val |-> 0]

Min2(a, b) == IF a <= b THEN a ELSE b
Max2(a, b) == IF a >= b THEN a ELSE b

\* lines 119-123: the level of a heading node
HeadingLevel(node) ==
    LET level == int(Get(node.attrs, "level", <<"1">>))
    IN  IF level.ok THEN Max2(1, Min2(6, level.val)) ELSE 1

\* str.lower() on the atoms of attribute values and snippet text
\* an atom left in its case
SameAtom(c) == c

LowerAtom(c) ==
    CASE c = "HTML" -> "html"
      [] c = "CSS" -> "css"
      [] c = "IFRAME" -> "iframe"
      [] c = "Number" -> "number"
      [] c = "URL" -> "url"
      [] c = "BASE64" -> "base64"
      [] c = "File" -> "file"
      [] OTHER -> c

LowerText(s) == MapSeq(s, LowerAtom)

\* _download_image_as_data_uri: net is the set of sources whose fetch
\* succeeds during this call; a failed fetch leaves the source itself
_download_image_as_data_uri(src, net) ==
    IF src \in net
    THEN <<"data:", "image/png", ";base64,", "b64">> \o src
    ELSE src

\* "".join(c.text for c in child.children if c.kind == "text")
RECURSIVE TextOfChildren(_)
TextOfChildren(children) ==
    IF children = <<>> THEN <<>>
    ELSE (IF Head(children).kind = "text" THEN Head(children).text ELSE <<>>)
         \o TextOfChildren(Tail(children))

RECURSIVE CollapseSpaces(_, _)
\* re.sub(r"\s{2,}", " ", s): i is the position, s the text
CollapseSpaces(s, i) ==
    IF i > Len(s) THEN <<>>
    ELSE IF IsSpaceChar(s[i]) /\ i < Len(s) /\ IsSpaceChar(s[i + 1])
         THEN LET after == SetMin({j \in (i + 1)..(Len(s) + 1) :
                                j > Len(s) \/ ~IsSpaceChar(s[j])})
              IN  <<" ">> \o CollapseSpaces(s, after)
         ELSE <<s[i]>> \o CollapseSpaces(s, i + 1)

\* the contents of the web-snippet-file children of one language group
RECURSIVE SnippetParts(_, _)
SnippetParts(children, langs) ==
    IF children = <<>> THEN <<>>
    ELSE LET child == Head(children)
             lang == LowerText(Get(child.attrs, "language", <<>>))
             content == html_unescape(Strip(TextOfChildren(child.children)))
         IN  (IF child.kind = "element" /\ child.tag = "web-snippet-file"
                 /\ lang \in langs
              THEN <<content>> ELSE <<>>)
             \o SnippetParts(Tail(children), langs)

\* lines 71-79: the assembled fragment
AssembleWebSnippet(htmlParts, cssParts, jsParts) ==
    (IF htmlParts # <<>> THEN JoinWith(htmlParts, <<"\n">>) ELSE <<>>)
    \o (IF cssParts # <<>>
        THEN <<"\n", "<style>", "\n">> \o JoinWith(cssParts, <<"\n">>)
             \o <<"\n", "</style>">>
        ELSE <<>>)
    \o (IF jsParts # <<>>
        THEN <<"\n", "<script>", "\n">> \o JoinWith(jsParts, <<"\n">>)
             \o <<"\n", "</script>">>
        ELSE <<>>)

IframeStyle == "style=\"width: 100%; height: 450px; border: none;\"></iframe>"

\* a text left as it is
NoQuote(s) == s

\* str.replace("'", "&#39;").replace("\n", " ")
SrcdocQuote(s) ==
    Replace(Replace(s, <<"'">>, <<"&#39;">>), <<"\n">>, <<" ">>)

_render_web_snippet(node) ==
    LET raw_html == AssembleWebSnippet(
                        SnippetParts(node.children, {<<"html">>}),
                        SnippetParts(node.children, {<<"css">>}),
                        SnippetParts(node.children, {<<"js">>, <<"javascript">>}))
        stripped == Strip(raw_html)
    IN  IF raw_html = <<>> THEN <<>>
        ELSE IF Contains(LowerText(stripped), <<"<", "iframe">>)
        THEN <<"\n", "\n">> \o stripped \o <<"\n", "\n">>
        ELSE <<"\n", "\n", "<iframe srcdoc='">>
             \o Strip(CollapseSpaces(SrcdocQuote(stripped), 1))
             \o <<"' ", IframeStyle, "\n", "\n">>

\* the text of the snippet-file children of a snippet node, one part each
RECURSIVE CodeParts(_)
CodeParts(children) ==
    IF children = <<>> THEN <<>>
    ELSE (IF Head(children).kind = "element" /\ Head(children).tag = "snippet-file"
          THEN <<TextOfChildren(Head(children).children)>> ELSE <<>>)
         \o CodeParts(Tail(children))

\* the attributes of an iframe node, each name="escaped value"
RECURSIVE IframeAttrs(_)
IframeAttrs(attrs) ==
    IF attrs = <<>> THEN <<>>
    ELSE <<" ", Head(attrs)[1], "=\"">> \o html_escape(Head(attrs)[2]) \o <<"\"">>
         \o IframeAttrs(Tail(attrs))

RECURSIVE _render_node(_, _)
RECURSIVE _render_children(_, _)

_render_children(children, net) ==
    IF children = <<>> THEN <<>>
    ELSE _render_node(Head(children), net) \o _render_children(Tail(children), net)

Wrap(open, inner, close) == <<open>> \o inner \o <<close>>

_render_node(node, net) ==
    LET tag == IF node.tag = None THEN "" ELSE node.tag
        inner == _render_children(node.children, net)
    IN
    IF node.kind = "text" THEN html_escape(node.text)
    ELSE CASE tag = "document" -> inner
      [] tag = "paragraph" -> Wrap("<p>", inner, "</p>")
      [] tag = "heading" ->
            <<"<h">> \o IntText(HeadingLevel(node)) \o <<">">> \o inner
            \o <<"</h">> \o IntText(HeadingLevel(node)) \o <<">">>
      [] tag = "break" -> <<"<br />">>
      [] tag = "image" ->
            LET src == Get(node.attrs, "src", <<>>)
                width == Get(node.attrs, "width", <<>>)
                height == Get(node.attrs, "height", <<>>)
            IN  IF src = <<>> THEN <<>>
                ELSE <<"<img ", "src=\"">> \o _download_image_as_data_uri(src, net)
                     \o <<"\"", " ", "alt=\"\"">>
                     \o (IF width # <<>>
                         THEN <<" ", "width=\"">> \o width \o <<"\"">> ELSE <<>>)
                     \o (IF height # <<>>
                         THEN <<" ", "height=\"">> \o height \o <<"\"">> ELSE <<>>)
                     \o <<" />">>
      [] tag = "list" ->
            IF LowerText(Get(node.attrs, "style", <<>>)) = <<"number">>
            THEN Wrap("<ol>", inner, "</ol>")
            ELSE Wrap("<ul>", inner, "</ul>")
      [] tag = "list-item" -> Wrap("<li>", inner, "</li>")
      [] tag = "bold" -> Wrap("<strong>", inner, "</strong>")
      [] tag = "italic" -> Wrap("<em>", inner, "</em>")
      [] tag = "underline" -> Wrap("<u>", inner, "</u>")
      [] tag \in {"blockquote", "quote"} -> Wrap("<blockquote>", inner, "</blockquote>")
      [] tag = "code" -> Wrap("<code>", inner, "</code>")
      [] tag = "pre" -> Wrap("<pre><code>", inner, "</code></pre>")
      [] tag = "iframe" ->
            <<"<iframe">> \o IframeAttrs(node.attrs) \o <<">">> \o inner
            \o <<"</iframe>">>
      [] tag = "link" ->
            <<"<a href=\"">> \o html_escape(Get(node.attrs, "href", <<>>))
            \o <<"\">">> \o inner \o <<"</a>">>
      [] tag = "snippet" ->
            LET lang == Strip(Get(node.attrs, "language", <<>>))
                code_raw == StripNewlines(JoinWith(CodeParts(node.children), <<"\n">>))
            IN  <<"<pre><code">>
                \o (IF lang # <<>>
                    THEN <<" class=\"language-">> \o lang \o <<"\"">> ELSE <<>>)
                \o <<">">> \o html_escape(html_unescape(code_raw))
                \o <<"</code></pre>">>
      [] tag = "web-snippet" -> _render_web_snippet(node)
      [] tag = "spoiler" ->
            <<"\n", "\n", "<details><summary>Expand</summary>", "\n">>
            \o Strip(inner) \o <<"\n", "</details>", "\n", "\n">>
      [] OTHER -> inner

ast_to_html(node, net) == _render_node(node, net)

(***************************************************************************)
(* converter/ast_renderer_md.py: _post_process_markdown.  Each regular     *)
(* expression is a scan over the atoms of the text.                        *)
(***************************************************************************)
\* the positions of s from i on where c stands
PositionsOf(s, i, c) == {j \in i..Len(s) : s[j] = c}

\* re.search(key + r'([^"]+)"', attrs): the value after the first key atom
\* that is followed by a non-empty run of non-quote atoms and a quote
AttrMatch(attrs, key) ==
    {i \in 1..Len(attrs) :
        /\ attrs[i] = key
        /\ PositionsOf(attrs, i + 1, "\"") # {}
        /\ SetMin(PositionsOf(attrs, i + 1, "\"")) > i + 1}

AttrValue(attrs, key) ==
    LET i == SetMin(AttrMatch(attrs, key))
    IN  SubSeq(attrs, i + 1, SetMin(PositionsOf(attrs, i + 1, "\"")) - 1)

\* _img_md_to_html: the <img> tag built from alt, src and the brace group
_img_md_to_html(alt, src, attrs) ==
    <<"<img src=\"">> \o src \o <<"\" alt=\"">> \o alt \o <<"\"">>
    \o (IF AttrMatch(attrs, "width=\"") # {}
        THEN <<" width=\"">> \o AttrValue(attrs, "width=\"") \o <<"\"">>
        ELSE <<>>)
    \o (IF AttrMatch(attrs, "height=\"") # {}
        THEN <<" height=\"">> \o AttrValue(attrs, "height=\"") \o <<"\"">>
        ELSE <<>>)
    \o <<">">>

\* ends of the alt group of !\[(.*?)\]\( starting at i: a "](" with a ")" after it
ImgAltEnds(s, i) ==
    {j \in (i + 2)..Len(s) :
        /\ s[j] = "]" /\ j < Len(s) /\ s[j + 1] = "("
        /\ PositionsOf(s, j + 2, ")") # {}}

ImgMatchesAt(s, i) ==
    /\ i < Len(s) /\ s[i] = "!" /\ s[i + 1] = "["
    /\ ImgAltEnds(s, i) # {}

RECURSIVE ImgSub(_, _)
\* re.sub(r'!\[(.*?)\]\((.*?)\)(\{[^}]*\})?', _img_md_to_html, md, flags=re.DOTALL)
ImgSub(s, i) ==
    IF i > Len(s) THEN <<>>
    ELSE IF ImgMatchesAt(s, i)
    THEN LET j == SetMin(ImgAltEnds(s, i))
             k == SetMin(PositionsOf(s, j + 2, ")"))
             braces == k < Len(s) /\ s[k + 1] = "{"
                         /\ PositionsOf(s, k + 2, "}") # {}
             e == IF braces THEN SetMin(PositionsOf(s, k + 2, "}")) ELSE k
         IN  _img_md_to_html(SubSeq(s, i + 2, j - 1), SubSeq(s, j + 2, k - 1),
                             SubSeq(s, k + 1, e))
             \o ImgSub(s, e + 1)
    ELSE <<s[i]>> \o ImgSub(s, i + 1)

\* the first position from i on that holds no whitespace (Len(s) + 1 if none)
SkipSpaces(s, i) ==
    SetMin({j \in i..(Len(s) + 1) : j > Len(s) \/ ~IsSpaceChar(s[j])})

UnderlineMatchesAt(s, i) ==
    /\ i <= Len(s) /\ s[i] = "["
    /\ PositionsOf(s, i + 1, "]") # {}
    /\ LET j == SetMin(PositionsOf(s, i + 1, "]"))
       IN  /\ j > i + 1
           /\ StartsWithAt(s, SkipSpaces(s, j + 1), <<"{", ".underline", "}">>)

RECURSIVE UnderlineSub(_, _)
\* re.sub(r"\[([^\]]+)\]\s*\{\.underline\}", r"<u>\1</u>", md)
UnderlineSub(s, i) ==
    IF i > Len(s) THEN <<>>
    ELSE IF UnderlineMatchesAt(s, i)
    THEN LET j == SetMin(PositionsOf(s, i + 1, "]"))
         IN  <<"<u>">> \o SubSeq(s, i + 1, j - 1) \o <<"</u>">>
             \o UnderlineSub(s, SkipSpaces(s, j + 1) + 3)
    ELSE <<s[i]>> \o UnderlineSub(s, i + 1)

\* the first position from i on that holds no digit
SkipDigits(s, i) ==
    SetMin({j \in i..(Len(s) + 1) : j > Len(s) \/ ~IsDigit(s[j])})

\* re.sub(r"^(\s*)(\d+)\.\s+-\s+", r"\1\2. ", line)
FixNumberedDash(line) ==
    LET d == SkipSpaces(line, 1)
        dot == SkipDigits(line, d)
        dash == SkipSpaces(line, dot + 1)
        rest == SkipSpaces(line, dash + 1)
    IN  IF /\ dot > d
           /\ dot <= Len(line) /\ line[dot] = "."
           /\ dash > dot + 1
           /\ dash <= Len(line) /\ line[dash] = "-"
           /\ rest > dash + 1
        THEN SubSeq(line, 1, dot - 1) \o <<".", " ">> \o SubSeq(line, rest, Len(line))
        ELSE line

\* re.sub(r"^(\s*)-\s+-\s+", r"\1- ", line)
FixDoubleDash(line) ==
    LET d == SkipSpaces(line, 1)
        dash == SkipSpaces(line, d + 1)
        rest == SkipSpaces(line, dash + 1)
    IN  IF /\ d <= Len(line) /\ line[d] = "-"
           /\ dash > d + 1
           /\ dash <= Len(line) /\ line[dash] = "-"
           /\ rest > dash + 1
        THEN SubSeq(line, 1, d - 1) \o <<"-", " ">> \o SubSeq(line, rest, Len(line))
        ELSE line

\* the atoms of s at the positions Keep accepts, in order
KeepWhere(s, Keep(_, _)) ==
    LET idx == {i \in 1..Len(s) : Keep(s, i)}
    IN  [n \in 1..Cardinality(idx) |->
            s[CHOOSE i \in idx : Cardinality({j \in idx : j <= i}) = n]]

BeforeEmphasis(s, i) ==
    s[i] = "\\" /\ (StartsWithAt(s, i + 1, <<"*", "*">>)
                      \/ StartsWithAt(s, i + 1, <<"_", "_">>))

NotBeforeEmphasis(s, i) == ~BeforeEmphasis(s, i)

\* re.sub(r"(\\)(?=\*\*|__)", "", line)
StripEmphasisEscapes(line) == KeepWhere(line, NotBeforeEmphasis)

\* if line.rstrip().endswith("\\"): line = re.sub(r"\\\s*$", "", line)
StripTrailingBackslash(line) ==
    LET r == RStrip(line)
    IN  IF r # <<>> /\ r[Len(r)] = "\\" THEN SubSeq(r, 1, Len(r) - 1) ELSE line

NotBeforeOpenBracket(s, i) == ~(s[i] = "\\" /\ StartsWithAt(s, i + 1, <<"[">>))

NotBeforeCloseBracket(s, i) == ~(s[i] = "\\" /\ StartsWithAt(s, i + 1, <<"]">>))

\* re.sub(r"\\(?=\[)", "", line) then re.sub(r"\\(?=\])", "", line)
StripBracketEscapes(line) ==
    KeepWhere(KeepWhere(line, NotBeforeOpenBracket), NotBeforeCloseBracket)

\* the code-fence marker, three backquotes, as one atom
FenceMark == "FENCE"

\* stripped.startswith(three backquotes)
IsFence(line) == StartsWithAt(Strip(line), 1, <<FenceMark>>)

\* lines 315-330: the rewrites of one line outside a code block
CleanLine(line) ==
    StripBracketEscapes(StripTrailingBackslash(StripEmphasisEscapes(
        FixDoubleDash(FixNumberedDash(line)))))

RECURSIVE CleanLines(_, _, _)
\* lines 298-332: the loop over md.splitlines()
CleanLines(lines, i, in_code_block) ==
    IF i > Len(lines) THEN <<>>
    ELSE IF IsFence(lines[i])
    THEN <<lines[i]>> \o CleanLines(lines, i + 1, ~in_code_block)
    ELSE IF in_code_block
    THEN <<lines[i]>> \o CleanLines(lines, i + 1, in_code_block)
    ELSE IF Strip(lines[i]) = <<"<!-- -->">>
    THEN CleanLines(lines, i + 1, in_code_block)
    ELSE <<CleanLine(lines[i])>> \o CleanLines(lines, i + 1, in_code_block)

_post_process_markdown(md) ==
    IF Strip(md) = <<>> THEN <<>>
    ELSE LET rewritten == UnderlineSub(ImgSub(md, 1), 1)
         IN  Strip(JoinWith(CleanLines(SplitLines(rewritten), 1, FALSE), <<"\n">>))

(***************************************************************************)
(* The external converter (pandoc behind pypandoc): a black box.  The      *)
(* model lets it return its input unchanged, return it upper-cased, or     *)
(* raise.  _html_to_markdown_via_ast strips what it returns.               *)
(***************************************************************************)
ConvModes == {"identity", "upper", "raise"}

UpperAtom(c) ==
    CASE c = " class=\"language-" -> " CLASS=\"LANGUAGE-"
      [] c = " width=\"" -> " WIDTH=\""
      [] c = "\" alt=\"" -> "\" ALT=\""
      [] c = "&amp;" -> "&AMP;"
      [] c = "&gt;" -> "&GT;"
      [] c = "&lt;" -> "&LT;"
      [] c = "&quot;" -> "&QUOT;"
      [] c = ".underline" -> ".UNDERLINE"
      [] c = ";base64," -> ";BASE64,"
      [] c = "</a>" -> "</A>"
      [] c = "</blockquote>" -> "</BLOCKQUOTE>"
      [] c = "</code>" -> "</CODE>"
      [] c = "</code></pre>" -> "</CODE></PRE>"
      [] c = "</details>" -> "</DETAILS>"
      [] c = "</em>" -> "</EM>"
      [] c = "</h" -> "</H"
      [] c = "</iframe>" -> "</IFRAME>"
      [] c = "</li>" -> "</LI>"
      [] c = "</ol>" -> "</OL>"
      [] c = "</p>" -> "</P>"
      [] c = "</script>" -> "</SCRIPT>"
      [] c = "</strong>" -> "</STRONG>"
      [] c = "</style>" -> "</STYLE>"
      [] c = "</u>" -> "</U>"
      [] c = "</ul>" -> "</UL>"
      [] c = "<a href=\"" -> "<A HREF=\""
      [] c = "<blockquote>" -> "<BLOCKQUOTE>"
      [] c = "<br />" -> "<BR />"
      [] c = "<code>" -> "<CODE>"
      [] c = "<details><summary>Expand</summary>" -> "<DETAILS><SUMMARY>EXPAND</SUMMARY>"
      [] c = "<em>" -> "<EM>"
      [] c = "<h" -> "<H"
      [] c = "<iframe" -> "<IFRAME"
      [] c = "<iframe srcdoc='" -> "<IFRAME SRCDOC='"
      [] c = "<img " -> "<IMG "
      [] c = "<img src=\"" -> "<IMG SRC=\""
      [] c = "<li>" -> "<LI>"
      [] c = "<ol>" -> "<OL>"
      [] c = "<p>" -> "<P>"
      [] c = "<pre><code" -> "<PRE><CODE"
      [] c = "<pre><code>" -> "<PRE><CODE>"
      [] c = "<script>" -> "<SCRIPT>"
      [] c = "<strong>" -> "<STRONG>"
      [] c = "<style>" -> "<STYLE>"
      [] c = "<u>" -> "<U>"
      [] c = "<ul>" -> "<UL>"
      [] c = "Bold" -> "BOLD"
      [] c = "Level" -> "LEVEL"
      [] c = "Number" -> "NUMBER"
      [] c = "a" -> "A"
      [] c = "alt" -> "ALT"
      [] c = "alt=\"\"" -> "ALT=\"\""
      [] c = "b" -> "B"
      [] c = "b64" -> "B64"
      [] c = "blockquote" -> "BLOCKQUOTE"
      [] c = "bold" -> "BOLD"
      [] c = "br" -> "BR"
      [] c = "break" -> "BREAK"
      [] c = "bullet" -> "BULLET"
      [] c = "c" -> "C"
      [] c = "code" -> "CODE"
      [] c = "css" -> "CSS"
      [] c = "css1" -> "CSS1"
      [] c = "data:" -> "DATA:"
      [] c = "details" -> "DETAILS"
      [] c = "document" -> "DOCUMENT"
      [] c = "em" -> "EM"
      [] c = "f" -> "F"
      [] c = "h1" -> "H1"
      [] c = "h2" -> "H2"
      [] c = "h3" -> "H3"
      [] c = "h4" -> "H4"
      [] c = "h5" -> "H5"
      [] c = "h6" -> "H6"
      [] c = "heading" -> "HEADING"
      [] c = "href" -> "HREF"
      [] c = "html" -> "HTML"
      [] c = "http://x" -> "HTTP://X"
      [] c = "http://x/y.png" -> "HTTP://X/Y.PNG"
      [] c = "http://x/z.png" -> "HTTP://X/Z.PNG"
      [] c = "iframe" -> "IFRAME"
      [] c = "image" -> "IMAGE"
      [] c = "image/png" -> "IMAGE/PNG"
      [] c = "img" -> "IMG"
      [] c = "italic" -> "ITALIC"
      [] c = "js" -> "JS"
      [] c = "js1" -> "JS1"
      [] c = "language" -> "LANGUAGE"
      [] c = "level" -> "LEVEL"
      [] c = "li" -> "LI"
      [] c = "link" -> "LINK"
      [] c = "list" -> "LIST"
      [] c = "list-item" -> "LIST-ITEM"
      [] c = "number" -> "NUMBER"
      [] c = "ol" -> "OL"
      [] c = "p" -> "P"
      [] c = "paragraph" -> "PARAGRAPH"
      [] c = "pre" -> "PRE"
      [] c = "py" -> "PY"
      [] c = "python" -> "PYTHON"
      [] c = "quote" -> "QUOTE"
      [] c = "script" -> "SCRIPT"
      [] c = "snippet" -> "SNIPPET"
      [] c = "snippet-file" -> "SNIPPET-FILE"
      [] c = "spoiler" -> "SPOILER"
      [] c = "src" -> "SRC"
      [] c = "src=\"" -> "SRC=\""
      [] c = "strong" -> "STRONG"
      [] c = "style" -> "STYLE"
      [] c = "style=\"width: 100%; height: 450px; border: none;\"></iframe>" -> "STYLE=\"WIDTH: 100%; HEIGHT: 450PX; BORDER: NONE;\"></IFRAME>"
      [] c = "summary" -> "SUMMARY"
      [] c = "u" -> "U"
      [] c = "ul" -> "UL"
      [] c = "underline" -> "UNDERLINE"
      [] c = "web-snippet" -> "WEB-SNIPPET"
      [] c = "web-snippet-file" -> "WEB-SNIPPET-FILE"
      [] c = "width" -> "WIDTH"
      [] c = "width=\"" -> "WIDTH=\""
      [] c = "x" -> "X"
      [] OTHER -> c

Convert(mode, markup) ==
    IF mode = "upper" THEN MapSeq(markup, UpperAtom) ELSE markup

(***************************************************************************)
(* Inputs of the AST pipeline.                                             *)
(***************************************************************************)
DocTags == {"paragraph", "Bold"}
DocTexts == {<<"a">>, <<"b">>, <<"&lt;", "c">>}

StartsWithText(toks) == toks # <<>> /\ toks[1].k = "text"

NoAdjacentText(toks) ==
    \A i \in 1..(Len(toks) - 1) : ~(toks[i].k = "text" /\ toks[i + 1].k = "text")

RECURSIVE Content(_)
\* the well-formed contents of at most n tokens: text runs and balanced
\* elements (the tokenizer never yields two adjacent text runs)
Content(n) ==
    IF n = 0 THEN {<<>>}
    ELSE LET shorter == Content(n - 1)
             inner == IF n >= 2 THEN Content(n - 2) ELSE {}
         IN  shorter
             \cup {<<Text(t)>> \o c : t \in DocTexts,
                       c \in {d \in shorter : ~StartsWithText(d)}}
             \cup {toks \in {<<Open(g, <<>>)>> \o c1 \o <<Close(g)>> \o c2 :
                                 g \in DocTags, c1 \in inner, c2 \in inner} :
                       Len(toks) <= n}

RawAlphabet ==
    {Open(g, <<>>) : g \in DocTags} \cup {Close(g) : g \in DocTags}
    \cup {Text(<<"a">>), Text(<<" ">>), Bad}

\* every token sequence of at most n tokens
RawInputs(n) ==
    {toks \in UNION {[1..m -> RawAlphabet] : m \in 0..n} : NoAdjacentText(toks)}

LevelTexts ==
    {<<"9">>, <<"0">>, <<"3">>, <<"6">>, <<"-", "2">>, <<"x">>, <<" ", "4">>,
     <<"1", "2">>, <<"1", "_", "0">>, <<"2", ".", "5">>, <<>>}

\* one heading, with and without a level attribute
HeadingInputs ==
    {<<Open("heading", <<>>), Text(<<"a">>), Close("heading")>>}
    \cup {<<Open("heading", <<<<"Level", v>>>>), Text(<<"a">>), Close("heading")>> :
              v \in LevelTexts}
    \cup {<<Open("paragraph", <<>>), Open("heading", <<<<"level", v>>>>),
            Close("heading"), Text(<<"b">>), Close("paragraph")>> : v \in LevelTexts}

File(lang, payload) ==
    <<Open("web-snippet-file", <<<<"language", <<lang>>>>>>), Text(payload),
      Close("web-snippet-file")>>

\* the files a web-snippet may hold: HTML, HTML with an iframe of its own,
\* HTML of blanks only, CSS, JavaScript, and a language the renderer does
\* not recognise
FileBlocks ==
    {File("html", <<"h1", "'", "\n", " ", "a">>),
     File("html", <<" ">>),
     File("HTML", <<"&lt;", "IFRAME", "&gt;">>),
     File("css", <<"css1">>),
     File("js", <<"js1">>),
     File("python", <<"a">>)}

WebSnippet(files) ==
    <<Open("web-snippet", <<>>)>> \o Flatten(files) \o <<Close("web-snippet")>>

Spoiler(toks) == <<Open("spoiler", <<>>)>> \o toks \o <<Close("spoiler")>>

\* a web-snippet of at most n files, bare, in a spoiler, or after a paragraph
SnippetInputs(n) ==
    LET snippets == {WebSnippet(fs) : fs \in UNION {[1..m -> FileBlocks] : m \in 0..n}}
    IN  snippets
        \cup {Spoiler(w) : w \in snippets}
        \cup {<<Open("paragraph", <<>>), Text(<<"a">>), Close("paragraph")>> \o w :
                  w \in snippets}
        \cup {Spoiler(<<Text(<<"a">>), Open("Bold", <<>>), Text(<<"b">>), Close("Bold")>>)}

\* a web-snippet of at most MaxFiles files and nothing around it
BareSnippets == {WebSnippet(fs) : fs \in UNION {[1..m -> FileBlocks] : m \in 0..MaxFiles}}

ImageSrcs == {<<"http://x/y.png">>, <<"http://x/z.png">>}

\* lists, images, code and links: one small document for each renderer rule
OtherInputs ==
    {<<Open("list", attrs),
       Open("list-item", <<>>), Text(<<"a">>), Close("list-item"),
       Open("list-item", <<>>), Text(<<"b">>), Close("list-item"),
       Close("list")>> :
          attrs \in {<<>>} \cup {<<<<"style", <<s>>>>>> : s \in {"number", "Number", "bullet"}}}
    \cup {<<Open("paragraph", <<>>), Open("image", <<<<"src", src>>, <<"width", <<"4">>>>>>),
            Close("image"), Text(<<"a">>), Close("paragraph")>> : src \in ImageSrcs}
    \cup {<<Open("image", <<>>), Close("image")>>,
          <<Open("snippet", <<<<"language", <<"py">>>>>>),
            Open("snippet-file", <<>>), Text(<<"a", "&lt;", "\n">>), Close("snippet-file"),
            Close("snippet")>>,
          <<Open("paragraph", <<>>), Text(<<"a">>), Open("Bold", <<>>), Text(<<"b">>),
            Close("Bold"), Text(<<"c">>), Close("paragraph")>>,
          <<Open("link", <<<<"href", <<"u", "&quot;">>>>>>), Text(<<"a">>), Close("link")>>,
          <<Open("iframe", <<<<"SRC", <<"u">>>>, <<"src", <<"&amp;">>>>>>), Close("iframe")>>,
          <<Open("quote", <<>>), Open("italic", <<>>), Text(<<"a">>), Close("italic"),
            Open("break", <<>>), Close("break"),
            Open("underline", <<>>), Open("code", <<>>), Close("code"), Close("underline"),
            Open("pre", <<>>), Text(<<"b">>), Close("pre"), Close("quote")>>}

AstInputs ==
    Content(MaxTokens) \cup RawInputs(MaxRaw) \cup HeadingInputs
    \cup SnippetInputs(MaxFiles) \cup OtherInputs

(***************************************************************************)
(* The AST pipeline: parse_edxml_to_ast, then ast_to_markdown.             *)
(***************************************************************************)
\* the AST pipeline has no call in progress
AstIdle ==
    /\ xml = <<>>
    /\ astPc = "idle"
    /\ parsePath = "none"
    /\ ast = NoNode
    /\ htmlText = <<>>
    /\ convIn = <<>>
    /\ convMode = "none"
    /\ mdText = <<>>

AstInit ==
    /\ xml \in AstInputs
    /\ astPc = "start"
    /\ parsePath = "none"
    /\ ast = NoNode
    /\ htmlText = <<>>
    /\ convIn = <<>>
    /\ convMode = "none"
    /\ mdText = <<>>

\* node = parse_edxml_to_ast(xml): returns a tree, or ParseError escapes
AstParse ==
    /\ astPc = "start"
    /\ LET r == parse_edxml_to_ast(xml)
       IN  /\ parsePath' = r.path
           /\ ast' = r.node
           /\ astPc' = IF r.path = "raised" THEN "raised" ELSE "parsed"
    /\ UNCHANGED <<xml, htmlText, convIn, convMode, mdText>>

\* ast_to_markdown, lines 338-340: render; empty markup returns "" at once
AstRender ==
    /\ astPc = "parsed"
    /\ \E net \in SUBSET ImageSrcs :
          LET html_text == ast_to_html(ast, net)
          IN  /\ htmlText' = html_text
              /\ astPc' = IF Strip(html_text) = <<>> THEN "done" ELSE "rendered"
    /\ mdText' = <<>>
    /\ UNCHANGED <<xml, parsePath, ast, convIn, convMode>>

\* ast_to_markdown, line 341: the call of the external converter
AstConvert ==
    /\ astPc = "rendered"
    /\ \E mode \in ConvModes :
          /\ convMode' = mode
          /\ convIn' = htmlText
          /\ IF mode = "raise"
             THEN astPc' = "convRaised" /\ mdText' = <<>>
             ELSE astPc' = "converted" /\ mdText' = Strip(Convert(mode, htmlText))
    /\ UNCHANGED <<xml, parsePath, ast, htmlText>>

\* ast_to_markdown, lines 342-343
AstPostProcess ==
    /\ astPc = "converted"
    /\ mdText' = _post_process_markdown(mdText)
    /\ astPc' = "done"
    /\ UNCHANGED <<xml, parsePath, ast, htmlText, convIn, convMode>>

AstNext ==
    \/ AstParse /\ UNCHANGED <<legVars, postVars, extVars, auxVars>>
    \/ AstRender /\ UNCHANGED <<legVars, postVars, extVars, auxVars>>
    \/ AstConvert /\ UNCHANGED <<legVars, postVars, extVars, auxVars>>
    \/ AstPostProcess /\ UNCHANGED <<legVars, postVars, extVars, auxVars>>

(***************************************************************************)
(* converters.py: edxml_to_markdown, the regex pipeline.  Its regular      *)
(* expressions match whole tags, so the text is kept as XML tokens while   *)
(* tags are rewritten, and as atoms from the converter on.                 *)
(***************************************************************************)
\* a tag written "<name ... />"
Void(t, a) == [k |-> "void", tag |-> t, attrib |-> a, text |-> <<>>]

RECURSIVE SerAttrs(_)
SerAttrs(attrib) ==
    IF attrib = <<>> THEN <<>>
    ELSE <<" ", Head(attrib)[1], "=\"">> \o Head(attrib)[2] \o <<"\"">>
         \o SerAttrs(Tail(attrib))

\* the characters of one token
SerToken(tok) ==
    CASE tok.k = "open" -> <<"<", tok.tag>> \o SerAttrs(tok.attrib) \o <<">">>
      [] tok.k = "close" -> <<"</", tok.tag, ">">>
      [] tok.k = "void" -> <<"<", tok.tag>> \o SerAttrs(tok.attrib) \o <<" />">>
      [] tok.k = "bad" -> <<"<">>
      [] OTHER -> tok.text

RECURSIVE Ser(_)
\* the characters of a token sequence
Ser(toks) == IF toks = <<>> THEN <<>> ELSE SerToken(Head(toks)) \o Ser(Tail(toks))

\* str.lower() on tag names, for the patterns compiled with re.IGNORECASE
LowerTag(t) ==
    CASE t = "Web-Snippet" -> "web-snippet"
      [] t = "SPOILER" -> "spoiler"
      [] t = "Image" -> "image"
      [] OTHER -> Lower(t)

\* positions after i of the closing tags named t
ClosesAfter(toks, i, t) ==
    {j \in (i + 1)..Len(toks) : toks[j].k = "close" /\ toks[j].tag = t}

\* the value of the first attribute named key with a non-empty value
\* (re.search(key="([^"]+)", tag)), <<>> when there is none
TagAttr(tok, key) ==
    LET hits == {i \in 1..Len(tok.attrib) :
                    tok.attrib[i][1] = key /\ tok.attrib[i][2] # <<>>}
    IN  IF hits = {} THEN <<>> ELSE tok.attrib[SetMin(hits)][2]

\* re.findall(r'<web-snippet-file[^>]*language="([^"]+)"[^>]*>(.*?)</web-snippet-file>',
\* full_block): the <<language, content>> pairs, from token i on
RECURSIVE SnippetFiles(_, _)
SnippetFiles(block, i) ==
    IF i > Len(block) THEN <<>>
    ELSE IF /\ block[i].k = "open" /\ block[i].tag = "web-snippet-file"
            /\ TagAttr(block[i], "language") # <<>>
            /\ ClosesAfter(block, i, "web-snippet-file") # {}
    THEN LET j == SetMin(ClosesAfter(block, i, "web-snippet-file"))
         IN  <<<<TagAttr(block[i], "language"), Ser(SubSeq(block, i + 1, j - 1))>>>>
             \o SnippetFiles(block, j + 1)
    ELSE SnippetFiles(block, i + 1)

\* lines 108-116: the stripped, unescaped contents of one language group
RECURSIVE FilesOfLang(_, _)
FilesOfLang(files, langs) ==
    IF files = <<>> THEN <<>>
    ELSE (IF LowerText(Head(files)[1]) \in langs
          THEN <<Strip(html_unescape(Head(files)[2]))>> ELSE <<>>)
         \o FilesOfLang(Tail(files), langs)

\* f"EDRAWHTMLBLOCK_{n}" and f"EDSPOILERBLOCK_{n}"
WebPlaceholder(n) == <<"EDRAWHTMLBLOCK_">> \o IntText(n)
SpoilerPlaceholder(n) == <<"EDSPOILERBLOCK_">> \o IntText(n)

\* _web_snippet_repl: the replacement text and the side-table afterwards
_web_snippet_repl(full_block, web_snippet_blocks) ==
    LET files == SnippetFiles(full_block, 1)
        raw_html == AssembleWebSnippet(FilesOfLang(files, {<<"html">>}),
                                       FilesOfLang(files, {<<"css">>}),
                                       FilesOfLang(files, {<<"js">>, <<"javascript">>}))
        stripped == Strip(raw_html)
        final_block ==
            IF Contains(LowerText(stripped), <<"<", "iframe">>)
            THEN <<"\n", "\n">> \o stripped \o <<"\n", "\n">>
            ELSE <<"\n", "\n", "<iframe srcdoc='">>
                 \o CollapseSpaces(SrcdocQuote(stripped), 1)
                 \o <<"' ", IframeStyle, "\n", "\n">>
        placeholder == WebPlaceholder(Len(web_snippet_blocks))
    IN  IF raw_html = <<>>
        THEN [out |-> <<>>, blocks |-> web_snippet_blocks]
        ELSE [out |-> <<Text(placeholder)>>,
              blocks |-> DictSet(web_snippet_blocks, placeholder, final_block)]

IsWebSnippetOpen(tok) ==
    tok.k = "open" /\ LowerTag(tok.tag) \in {"web-snippet", "web-snippet-file"}

WebSnippetCloses(toks, i) ==
    {j \in (i + 1)..Len(toks) :
        toks[j].k = "close" /\ LowerTag(toks[j].tag) = "web-snippet"}

\* lines 152-157: re.sub(r"<web-snippet[^>]*>.*?</web-snippet>", _web_snippet_repl, xml)
RECURSIVE ProtectWebSnippets(_, _, _, _)
ProtectWebSnippets(toks, i, out, blocks) ==
    IF i > Len(toks) THEN [out |-> out, blocks |-> blocks]
    ELSE IF IsWebSnippetOpen(toks[i]) /\ WebSnippetCloses(toks, i) # {}
    THEN LET j == SetMin(WebSnippetCloses(toks, i))
             r == _web_snippet_repl(SubSeq(toks, i, j), blocks)
         IN  ProtectWebSnippets(toks, j + 1, out \o r.out, r.blocks)
    ELSE ProtectWebSnippets(toks, i + 1, Append(out, toks[i]), blocks)

AllDigits(s) == s # <<>> /\ \A i \in 1..Len(s) : IsDigit(s[i])

\* the tag name h1 .. h6
HeadingTag(level) ==
    CASE level = 1 -> "h1" [] level = 2 -> "h2" [] level = 3 -> "h3"
      [] level = 4 -> "h4" [] level = 5 -> "h5" [] level = 6 -> "h6"
      [] OTHER -> "h?"

\* _heading_block: the level written for the digits the pattern captured
_heading_block(digits) == Min2(Max2(DigitsVal(digits, 0), 1), 6)

\* <heading\s+level="(\d+)"[^>]*> : level is the first attribute, all digits
IsHeadingOpen(tok) ==
    /\ tok.k = "open" /\ tok.tag = "heading"
    /\ tok.attrib # <<>>
    /\ tok.attrib[1][1] = "level"
    /\ AllDigits(tok.attrib[1][2])

\* lines 170-175: re.sub(r"<heading\s+level=\"(\d+)\"[^>]*>(.*?)</heading>", ...)
RECURSIVE ConvertHeadings(_, _)
ConvertHeadings(toks, i) ==
    IF i > Len(toks) THEN <<>>
    ELSE IF IsHeadingOpen(toks[i]) /\ ClosesAfter(toks, i, "heading") # {}
    THEN LET j == SetMin(ClosesAfter(toks, i, "heading"))
             h == HeadingTag(_heading_block(toks[i].attrib[1][2]))
         IN  <<Open(h, <<>>)>> \o SubSeq(toks, i + 1, j - 1) \o <<Close(h)>>
             \o ConvertHeadings(toks, j + 1)
    ELSE <<toks[i]>> \o ConvertHeadings(toks, i + 1)

\* lines 178-183: document tags dropped, paragraph -> p, <break> -> <br />
RenameBlockTag(tok) ==
    CASE tok.k \in {"open", "close"} /\ tok.tag = "document" -> <<>>
      [] tok.k = "open" /\ tok.tag = "paragraph" -> <<Open("p", tok.attrib)>>
      [] tok.k = "close" /\ tok.tag = "paragraph" -> <<Close("p")>>
      [] tok.k = "open" /\ tok.tag = "break" /\ tok.attrib = <<>> -> <<Void("br", <<>>)>>
      [] tok.k = "close" /\ tok.tag = "break" -> <<>>
      [] OTHER -> <<tok>>

\* _image_repl: the <img> tag of an image tag, nothing when it has no src
_image_repl(tok, net) ==
    LET src == TagAttr(tok, "src")
        width == TagAttr(tok, "width")
        height == TagAttr(tok, "height")
    IN  IF src = <<>> THEN <<>>
        ELSE <<Void("img",
                  <<<<"src", IF src \in net
                             THEN <<"data:", "image/png", ";base64,", "b64">> \o src
                             ELSE src>>,
                    <<"alt", <<>>>>>>
                  \o (IF width # <<>> THEN <<<<"width", width>>>> ELSE <<>>)
                  \o (IF height # <<>> THEN <<<<"height", height>>>> ELSE <<>>))>>

\* lines 186-191: re.sub(r"<image([^>]*)\/?>", _image_repl, html_like)
ConvertImage(tok, net) ==
    IF tok.k = "open" /\ LowerTag(tok.tag) = "image" THEN _image_repl(tok, net)
    ELSE <<tok>>

\* a closing tag that is a </ul> whatever is open
AlwaysUl(stack) == "ul"

\* list_type = stack.pop() if stack else "ul"
PoppedType(stack) == IF stack # <<>> THEN stack[Len(stack)] ELSE "ul"

\* _convert_lists: a stack of the open list types; every tag that is not a
\* closing tag opens a list, a self-closing one too
RECURSIVE _convert_lists(_, _, _)
_convert_lists(toks, i, stack) ==
    IF i > Len(toks)
    THEN [n \in 1..Len(stack) |-> Close(stack[Len(stack) + 1 - n])]
    ELSE IF toks[i].k = "close" /\ toks[i].tag = "list"
    THEN <<Close(PoppedType(stack))>>
         \o _convert_lists(toks, i + 1,
                IF stack # <<>> THEN SubSeq(stack, 1, Len(stack) - 1) ELSE stack)
    ELSE IF toks[i].k \in {"open", "void"} /\ toks[i].tag = "list"
    THEN LET list_type == IF LowerText(TagAttr(toks[i], "style")) = <<"number">>
                          THEN "ol" ELSE "ul"
         IN  <<Open(list_type, <<>>)>>
             \o _convert_lists(toks, i + 1, Append(stack, list_type))
    ELSE <<toks[i]>> \o _convert_lists(toks, i + 1, stack)

\* lines 195-205: list-item -> li, <bold> -> <strong>, <italic> -> <em>,
\* <underline> -> <u>
RenameInlineTag(tok) ==
    CASE tok.k = "open" /\ tok.tag = "list-item" -> Open("li", tok.attrib)
      [] tok.k = "close" /\ tok.tag = "list-item" -> Close("li")
      [] tok.k = "open" /\ tok.tag = "bold" /\ tok.attrib = <<>> -> Open("strong", <<>>)
      [] tok.k = "close" /\ tok.tag = "bold" -> Close("strong")
      [] tok.k = "open" /\ tok.tag = "italic" /\ tok.attrib = <<>> -> Open("em", <<>>)
      [] tok.k = "close" /\ tok.tag = "italic" -> Close("em")
      [] tok.k = "open" /\ tok.tag = "underline" /\ tok.attrib = <<>> -> Open("u", <<>>)
      [] tok.k = "close" /\ tok.tag = "underline" -> Close("u")
      [] OTHER -> tok

\* the first position from i on that holds no text token (onlySpace: no
\* text token made of whitespace)
RECURSIVE SkipText(_, _, _)
SkipText(toks, i, onlySpace) ==
    IF i <= Len(toks) /\ toks[i].k = "text" /\ (~onlySpace \/ AllSpace(toks[i].text))
    THEN SkipText(toks, i + 1, onlySpace)
    ELSE i

\* lines 206-211: re.sub(r"<(strong|em|u)>([^<]*?)<br\s*/>\s*</\1>", r"<\1>\2</\1><br />")
RECURSIVE MoveBreaksOut(_, _)
MoveBreaksOut(toks, i) ==
    IF i > Len(toks) THEN <<>>
    ELSE LET br == SkipText(toks, i + 1, FALSE)
             close == SkipText(toks, br + 1, TRUE)
         IN  IF /\ toks[i].k = "open" /\ toks[i].tag \in {"strong", "em", "u"}
                /\ toks[i].attrib = <<>>
                /\ br <= Len(toks) /\ toks[br].k = "void" /\ toks[br].tag = "br"
                /\ close <= Len(toks) /\ toks[close].k = "close"
                /\ toks[close].tag = toks[i].tag
             THEN SubSeq(toks, i, br - 1) \o <<toks[close], toks[br]>>
                  \o MoveBreaksOut(toks, close + 1)
             ELSE <<toks[i]>> \o MoveBreaksOut(toks, i + 1)

\* _snippet_repl: the <pre><code> block of one snippet
_snippet_repl(lang, code) ==
    <<"<pre><code">>
    \o (IF Strip(lang) # <<>>
        THEN <<" class=\"language-">> \o Strip(lang) \o <<"\"">> ELSE <<>>)
    \o <<">">> \o html_escape(html_unescape(StripNewlines(code)))
    \o <<"</code></pre>">>

HasAttr(tok, key) == \E i \in 1..Len(tok.attrib) : tok.attrib[i][1] = key

AttrOf(tok, key) ==
    tok.attrib[SetMin({i \in 1..Len(tok.attrib) : tok.attrib[i][1] = key})][2]

\* ends of a snippet starting at i: the </snippet-file> tags followed by
\* optional whitespace and </snippet>
SnippetEnds(toks, i, fileAt) ==
    {j \in ClosesAfter(toks, fileAt, "snippet-file") :
        LET e == SkipText(toks, j + 1, TRUE)
        IN  e <= Len(toks) /\ toks[e].k = "close" /\ toks[e].tag = "snippet"}

\* lines 223-229: re.sub(r'<snippet[^>]*?language="([^"]*)"[^>]*>\s*<snippet-file[^>]*?>(.*?)
\* </snippet-file>\s*</snippet>', _snippet_repl, html_like)
RECURSIVE ConvertSnippets(_, _)
ConvertSnippets(toks, i) ==
    IF i > Len(toks) THEN <<>>
    ELSE LET fileAt == SkipText(toks, i + 1, TRUE)
         IN  IF /\ toks[i].k = "open" /\ toks[i].tag = "snippet"
                /\ HasAttr(toks[i], "language")
                /\ fileAt <= Len(toks) /\ toks[fileAt].k = "open"
                /\ toks[fileAt].tag = "snippet-file"
                /\ SnippetEnds(toks, i, fileAt) # {}
             THEN LET j == SetMin(SnippetEnds(toks, i, fileAt))
                  IN  <<Text(_snippet_repl(AttrOf(toks[i], "language"),
                                           Ser(SubSeq(toks, fileAt + 1, j - 1))))>>
                      \o ConvertSnippets(toks, SkipText(toks, j + 1, TRUE) + 1)
             ELSE <<toks[i]>> \o ConvertSnippets(toks, i + 1)

\* lines 232-237: <link href="..."> -> <a href="...">, </link> -> </a>
RenameLink(tok) ==
    CASE /\ tok.k = "open" /\ tok.tag = "link" /\ Len(tok.attrib) = 1
         /\ tok.attrib[1][1] = "href" /\ tok.attrib[1][2] # <<>> -> Open("a", tok.attrib)
      [] tok.k = "close" /\ tok.tag = "link" -> Close("a")
      [] OTHER -> tok

SpoilerCloses(toks, i) ==
    {j \in (i + 1)..Len(toks) :
        toks[j].k = "close" /\ LowerTag(toks[j].tag) = "spoiler"}

\* _spoiler_repl and lines 249-254: re.sub(r"<spoiler>(.*?)</spoiler>", _spoiler_repl, ...)
RECURSIVE ProtectSpoilers(_, _, _, _)
ProtectSpoilers(toks, i, out, blocks) ==
    IF i > Len(toks) THEN [out |-> out, blocks |-> blocks]
    ELSE IF /\ toks[i].k = "open" /\ LowerTag(toks[i].tag) = "spoiler"
            /\ toks[i].attrib = <<>>
            /\ SpoilerCloses(toks, i) # {}
    THEN LET j == SetMin(SpoilerCloses(toks, i))
             inner == Strip(Ser(SubSeq(toks, i + 1, j - 1)))
             placeholder == SpoilerPlaceholder(Len(blocks))
             spoiler_html ==
                 <<"\n", "\n", "<details><summary>Expand</summary>", "\n">>
                 \o inner \o <<"\n", "</details>", "\n", "\n">>
         IN  ProtectSpoilers(toks, j + 1, Append(out, Text(placeholder)),
                             DictSet(blocks, placeholder, spoiler_html))
    ELSE ProtectSpoilers(toks, i + 1, Append(out, toks[i]), blocks)

\* each token replaced by the tokens F gives for it
FlatMap(toks, F(_)) == Flatten([i \in 1..Len(toks) |-> F(toks[i])])

\* lines 92-254: the markup handed to the converter and the two side-tables
LegacyPrepare(toks, net) ==
    LET web == ProtectWebSnippets(toks, 1, <<>>, <<>>)
        headed == ConvertHeadings(web.out, 1)
        blocks == FlatMap(headed, RenameBlockTag)
        imaged == FlatMap(blocks, LAMBDA t : ConvertImage(t, net))
        listed == _convert_lists(imaged, 1, <<>>)
        styled == MoveBreaksOut(MapSeq(listed, RenameInlineTag), 1)
        linked == MapSeq(ConvertSnippets(styled, 1), RenameLink)
        spoilers == ProtectSpoilers(linked, 1, <<>>, <<>>)
    IN  [html_like |-> spoilers.out,
         web_snippet_blocks |-> web.blocks,
         spoiler_blocks |-> spoilers.blocks]

UrlAtoms == {"http://x/y.png", "http://x/z.png", "http://x"}

\* ends of an autolink starting at i: "<", a URL, no space before the ">"
AutolinkEnd(s, i) ==
    LET gts == PositionsOf(s, i + 2, ">")
    IN  IF /\ i < Len(s) /\ s[i] = "<" /\ s[i + 1] \in UrlAtoms
           /\ ~(i > 1 /\ s[i - 1] = "(")
           /\ gts # {}
           /\ \A j \in (i + 1)..(SetMin(gts) - 1) : s[j] # " "
        THEN SetMin(gts) ELSE 0

RECURSIVE AutolinkSub(_, _)
\* lines 265-269: re.sub(r"(?<!\()<(https?://[^ >]+)>", r"\1", md)
AutolinkSub(s, i) ==
    IF i > Len(s) THEN <<>>
    ELSE IF AutolinkEnd(s, i) # 0
    THEN SubSeq(s, i + 1, AutolinkEnd(s, i) - 1) \o AutolinkSub(s, AutolinkEnd(s, i) + 1)
    ELSE <<s[i]>> \o AutolinkSub(s, i + 1)

\* atoms that are a tag name: a letter followed by letters, digits or dashes
NameAtoms ==
    LET names == {
         "Bold", "Level", "Number", "a", "alt", "b", "blockquote", "bold", "br",
         "break", "bullet", "c", "code", "css", "css1", "details", "document", "em",
         "f", "h1", "h2", "h3", "h4", "h5", "h6", "heading", "href", "html", "iframe",
         "image", "img", "italic", "js", "js1", "language", "level", "li", "link",
         "list", "list-item", "number", "ol", "p", "paragraph", "pre", "py", "python",
         "quote", "script", "snippet", "snippet-file", "spoiler", "src", "strong",
         "style", "summary", "u", "ul", "underline", "web-snippet", "web-snippet-file",
         "width", "x"}
    IN  names \cup {UpperAtom(n) : n \in names}

\* atoms that hold a ">"
GtAtoms ==
    LET gts == {
         " />", "\">", "<!-- -->", "</a>", "</blockquote>", "</code>", "</code></pre>",
         "</details>", "</em>", "</iframe>", "</li>", "</ol>", "</p>", "</script>",
         "</strong>", "</style>", "</u>", "</ul>", "<blockquote>", "<br />", "<code>",
         "<details><summary>Expand</summary>", "<em>", "<li>", "<ol>", "<p>",
         "<pre><code", "<pre><code>", "<script>", "<strong>", "<style>", "<u>", "<ul>",
         ">",
         IframeStyle}
    IN  gts \cup {UpperAtom(g) : g \in gts}

\* the text after "<" at i has the form of an HTML tag:
\* /?[A-Za-z][A-Za-z0-9\-]*(?:\s[^>]*)?>
LooksLikeTag(s, i) ==
    LET n == IF s[i] = "<" /\ i < Len(s) /\ s[i + 1] = "/" THEN i + 2 ELSE i + 1
    IN  /\ n < Len(s)
        /\ s[n] \in NameAtoms
        /\ \/ s[n + 1] = ">"
           \/ /\ s[n + 1] \in {" ", "\t", " />"}
              /\ \E j \in (n + 1)..Len(s) : s[j] \in GtAtoms

RECURSIVE _escape_loose_angles(_, _)
\* re.sub(r"<(?!/?[A-Za-z][A-Za-z0-9\-]*(?:\s[^>]*)?>)([^>]*)>", r"\\<\1>", line)
_escape_loose_angles(s, i) ==
    IF i > Len(s) THEN <<>>
    ELSE LET gts == {j \in (i + 1)..Len(s) : s[j] \in GtAtoms}
         IN  IF s[i] \in {"<", "</"} /\ ~LooksLikeTag(s, i) /\ gts # {}
             THEN <<"\\">> \o SubSeq(s, i, SetMin(gts))
                  \o _escape_loose_angles(s, SetMin(gts) + 1)
             ELSE <<s[i]>> \o _escape_loose_angles(s, i + 1)

RECURSIVE LegacyCleanLines(_, _, _)
\* lines 308-343: the loop over md.splitlines()
LegacyCleanLines(lines, i, in_code_block) ==
    IF i > Len(lines) THEN <<>>
    ELSE IF IsFence(lines[i])
    THEN <<lines[i]>> \o LegacyCleanLines(lines, i + 1, ~in_code_block)
    ELSE IF in_code_block
    THEN <<lines[i]>> \o LegacyCleanLines(lines, i + 1, in_code_block)
    ELSE IF Strip(lines[i]) = <<"<!-- -->">>
    THEN LegacyCleanLines(lines, i + 1, in_code_block)
    ELSE <<_escape_loose_angles(CleanLine(lines[i]), 1)>>
         \o LegacyCleanLines(lines, i + 1, in_code_block)

\* lines 264-345: the text transforms applied to the converter's output
LegacyCleanup(md) ==
    LET rewritten == UnderlineSub(ImgSub(AutolinkSub(md, 1), 1), 1)
    IN  Strip(JoinWith(LegacyCleanLines(SplitLines(rewritten), 1, FALSE), <<"\n">>))

RECURSIVE SubstituteBlocks(_, _)
\* lines 348-352: for placeholder, block in blocks.items(): md = md.replace(...)
SubstituteBlocks(md, blocks) ==
    IF blocks = <<>> THEN md
    ELSE CHOOSE out \in {SubstituteBlocks(replaced, Tail(blocks)) :
                            replaced \in {Replace(md, Head(blocks)[1], Head(blocks)[2])}} :
            TRUE

\* the length of the style tag <u>, <strong>, <em> (closing: </u>, ...) at i,
\* 0 when there is none; a tag is one atom or the three atoms of a token
StyleTagLen(s, i, closing) ==
    IF i > Len(s) THEN 0
    ELSE IF s[i] \in (IF closing THEN {"</u>", "</strong>", "</em>"}
                      ELSE {"<u>", "<strong>", "<em>"}) THEN 1
    ELSE IF /\ i + 2 <= Len(s)
            /\ s[i] = (IF closing THEN "</" ELSE "<")
            /\ s[i + 1] \in {"u", "strong", "em"}
            /\ s[i + 2] = ">" THEN 3
    ELSE 0

RECURSIVE StyleRunEnd(_, _, _)
\* the position after the run of style tags at i
StyleRunEnd(s, i, closing) ==
    IF StyleTagLen(s, i, closing) = 0 THEN i
    ELSE StyleRunEnd(s, i + StyleTagLen(s, i, closing), closing)

IsAt(s, i, c) == i >= 1 /\ i <= Len(s) /\ s[i] = c

\* the end of a match whose first group ends before j, 0 when the rest,
\* (?:<tags>)*? \*\*? (?:</tags>)*? \]\( ([^)]+) \) , does not match at j
LinkTailEnd(s, j) ==
    LET star == StyleRunEnd(s, j, FALSE)
        after == IF IsAt(s, star + 1, "*") THEN star + 2 ELSE star + 1
        rb == StyleRunEnd(s, after, TRUE)
        ends == PositionsOf(s, rb + 2, ")")
    IN  IF /\ IsAt(s, star, "*") /\ IsAt(s, rb, "]") /\ IsAt(s, rb + 1, "(")
           /\ ends # {} /\ SetMin(ends) > rb + 2
        THEN SetMin(ends) ELSE 0

\* ends of the first group when it starts at g: lazy, never across a "]"
GroupEnds(s, g) ==
    {j \in (g + 1)..(Len(s) + 1) :
        /\ \A k \in g..(j - 1) : s[k] # "]"
        /\ LinkTailEnd(s, j) # 0}

\* the match of the pattern at i: [found, g (start of group 1), j (its end,
\* exclusive), e (last position of the match)]
LinkMatch(s, i) ==
    LET stars == StyleRunEnd(s, i, FALSE)
        g0 == stars + 2
        bracket == IsAt(s, g0, "[")
        g == IF bracket /\ GroupEnds(s, g0 + 1) # {} THEN g0 + 1 ELSE g0
    IN  IF IsAt(s, stars, "*") /\ IsAt(s, stars + 1, "*") /\ GroupEnds(s, g) # {}
        THEN [found |-> TRUE, g |-> g, j |-> SetMin(GroupEnds(s, g)),
              e |-> LinkTailEnd(s, SetMin(GroupEnds(s, g)))]
        ELSE [found |-> FALSE, g |-> 0, j |-> 0, e |-> 0]

RECURSIVE StyleTags(_, _, _, _)
\* re.findall(r"</?(?:u|strong|em)>", text): the tags of s[i..e], closing or not
StyleTags(s, i, e, closing) ==
    IF i > e THEN <<>>
    ELSE IF StyleTagLen(s, i, closing) # 0 /\ i + StyleTagLen(s, i, closing) - 1 <= e
    THEN <<SubSeq(s, i, i + StyleTagLen(s, i, closing) - 1)>>
         \o StyleTags(s, i + StyleTagLen(s, i, closing), e, closing)
    ELSE StyleTags(s, i + 1, e, closing)

Reverse(q) == [n \in 1..Len(q) |-> q[Len(q) + 1 - n]]

\* rebuild: [opening text closing](url)
RebuildLink(s, i, m) ==
    LET rb == CHOOSE k \in m.j..m.e : s[k] = "]" /\ IsAt(s, k + 1, "(")
                                      /\ \A n \in m.j..(k - 1) : s[n] # "]"
    IN  <<"[">> \o Flatten(StyleTags(s, i, m.e, FALSE))
        \o SubSeq(s, m.g, m.j - 1)
        \o Flatten(Reverse(StyleTags(s, i, m.e, TRUE)))
        \o <<"]", "(">> \o SubSeq(s, rb + 2, m.e - 1) \o <<")">>

RECURSIVE _fix_interleaved_html_styles(_, _)
\* lines 356-377: pattern.sub(rebuild, text), from position i on
_fix_interleaved_html_styles(s, i) ==
    LET hits == {j \in i..Len(s) : LinkMatch(s, j).found}
    IN  IF hits = {} THEN SubSeq(s, i, Len(s))
        ELSE LET j == SetMin(hits)
                 m == LinkMatch(s, j)
             IN  SubSeq(s, i, j - 1) \o RebuildLink(s, j, m)
                 \o _fix_interleaved_html_styles(s, m.e + 1)

(***************************************************************************)
(* The regex pipeline: one call of edxml_to_markdown.                      *)
(***************************************************************************)
\* the payload of the i-th web-snippet of a run
RunPayload(i) == <<"f">> \o IntText(i)

RECURSIVE SnippetRun(_, _)
\* web-snippets number i .. k - 1, each on a line of its own
SnippetRun(i, k) ==
    IF i >= k THEN <<>>
    ELSE WebSnippet(<<File("html", RunPayload(i))>>) \o <<Text(<<"\n">>)>>
         \o SnippetRun(i + 1, k)

\* a Markdown link whose emphasis markers and brackets interleave
LinkPayload == <<"*", "*", "[", "a", "*", "*", "]", "(", "u", ")">>

LegacyBlocks ==
    {<<Text(<<"a">>)>>,
     <<Text(<<"\n">>)>>,
     WebSnippet(<<File("html", <<"h1">>)>>),
     WebSnippet(<<File("python", <<"a">>)>>),
     WebSnippet(<<File("html", LinkPayload)>>),
     Spoiler(<<Text(<<"b">>)>>),
     Spoiler(WebSnippet(<<File("css", <<"css1">>)>>))}

LegacyInputs ==
    {Flatten(bs) : bs \in UNION {[1..m -> LegacyBlocks] : m \in 0..MaxBlocks}}
    \cup {SnippetRun(0, k) : k \in 0..MaxRun}
    \cup HeadingInputs
    \cup OtherInputs
    \cup BareSnippets
    \cup {<<Open("document", <<>>), Open("paragraph", <<>>), Open("bold", <<>>),
            Text(<<"a">>), Open("break", <<>>), Close("break"), Close("bold"),
            Text(LinkPayload), Close("paragraph"), Close("document")>>,
          <<Open("paragraph", <<>>), Text(<<"<", "http://x", ">", "<", "3", ">">>),
            Close("paragraph"), Close("list")>>}

LegacyIdle ==
    /\ legXml = <<>>
    /\ legPc = "idle"
    /\ htmlLike = <<>>
    /\ webBlocks = <<>>
    /\ spoilerBlocks = <<>>
    /\ legConv = "none"
    /\ legClean = <<>>
    /\ legMd = <<>>

LegacyInit ==
    /\ legXml \in LegacyInputs
    /\ legPc = "start"
    /\ htmlLike = <<>>
    /\ webBlocks = <<>>
    /\ spoilerBlocks = <<>>
    /\ legConv = "none"
    /\ legClean = <<>>
    /\ legMd = <<>>

\* lines 89-254: an empty input returns "" at once; otherwise the markup for
\* the converter is built and the protected blocks are registered
LegacyPrepareStep ==
    /\ legPc = "start"
    /\ IF legXml = <<>>
       THEN /\ legPc' = "done"
            /\ UNCHANGED <<htmlLike, webBlocks, spoilerBlocks>>
       ELSE \E net \in SUBSET ImageSrcs :
               LET r == LegacyPrepare(legXml, net)
               IN  /\ htmlLike' = r.html_like
                   /\ webBlocks' = r.web_snippet_blocks
                   /\ spoilerBlocks' = r.spoiler_blocks
                   /\ legPc' = "prepared"
    /\ UNCHANGED <<legXml, legConv, legClean, legMd>>

\* lines 257-262: the call of the external converter
LegacyConvert ==
    /\ legPc = "prepared"
    /\ \E mode \in ConvModes :
          /\ legConv' = mode
          /\ IF mode = "raise"
             THEN legPc' = "convRaised" /\ legMd' = <<>>
             ELSE legPc' = "converted" /\ legMd' = Convert(mode, Ser(htmlLike))
    /\ UNCHANGED <<legXml, htmlLike, webBlocks, spoilerBlocks, legClean>>

\* lines 264-345: autolinks, images, underlines, the line cleanup
LegacyCleanupStep ==
    /\ legPc = "converted"
    /\ legMd' = LegacyCleanup(legMd)
    /\ legClean' = LegacyCleanup(legMd)
    /\ legPc' = "cleaned"
    /\ UNCHANGED <<legXml, htmlLike, webBlocks, spoilerBlocks, legConv>>

\* lines 347-352: the placeholders are replaced, web-snippets first
LegacySubstitute ==
    /\ legPc = "cleaned"
    /\ legMd' = SubstituteBlocks(SubstituteBlocks(legMd, webBlocks), spoilerBlocks)
    /\ legPc' = "substituted"
    /\ UNCHANGED <<legXml, htmlLike, webBlocks, spoilerBlocks, legConv, legClean>>

\* lines 354-381: the link repair, then return md.strip()
LegacyFinish ==
    /\ legPc = "substituted"
    /\ legMd' = Strip(_fix_interleaved_html_styles(legMd, 1))
    /\ legPc' = "done"
    /\ UNCHANGED <<legXml, htmlLike, webBlocks, spoilerBlocks, legConv, legClean>>

LegacyNext ==
    \/ LegacyPrepareStep /\ UNCHANGED <<astVars, postVars, extVars, auxVars>>
    \/ LegacyConvert /\ UNCHANGED <<astVars, postVars, extVars, auxVars>>
    \/ LegacyCleanupStep /\ UNCHANGED <<astVars, postVars, extVars, auxVars>>
    \/ LegacySubstitute /\ UNCHANGED <<astVars, postVars, extVars, auxVars>>
    \/ LegacyFinish /\ UNCHANGED <<astVars, postVars, extVars, auxVars>>

(***************************************************************************)
(* The post-processor run on a Markdown text and again on its own output.  *)
(***************************************************************************)
Pieces ==
    {<<"\\">>, <<"*", "*">>, <<"_", "_">>, <<"[">>, <<"]">>, <<"-", " ">>,
     <<"1", ".", " ">>, <<"a">>, <<" ">>, <<"\n">>, <<"<!-- -->">>,
     <<FenceMark>>,
     <<"!", "[", "a", "]", "(", "b", ")">>,
     <<"{", "width=\"", "4", "\"", "}">>,
     <<"[", "a", "]", "{", ".underline", "}">>}

PieceTexts(n) == {Flatten(ps) : ps \in UNION {[1..m -> Pieces] : m \in 0..n}}

\* a closed fenced block around a body, alone or after a line of text
FencedTexts(n) ==
    {pre \o <<FenceMark, "\n">> \o body \o <<"\n", FenceMark>> \o post :
        pre \in {<<>>, <<"a", "\n">>},
        body \in PieceTexts(n),
        post \in {<<>>, <<"\n", "\\", "*", "*">>}}

PostInputs == PieceTexts(MaxPieces) \cup FencedTexts(MaxFenced)

PostIdle ==
    /\ postIn = <<>>
    /\ postPc = "idle"
    /\ postOnce = <<>>
    /\ postTwice = <<>>

PostInit ==
    /\ postIn \in PostInputs
    /\ postPc = "start"
    /\ postOnce = <<>>
    /\ postTwice = <<>>

PostFirst ==
    /\ postPc = "start"
    /\ postOnce' = _post_process_markdown(postIn)
    /\ postPc' = "once"
    /\ UNCHANGED <<postIn, postTwice>>

PostAgain ==
    /\ postPc = "once"
    /\ postTwice' = _post_process_markdown(postOnce)
    /\ postPc' = "twice"
    /\ UNCHANGED <<postIn, postOnce>>

PostNext ==
    \/ PostFirst /\ UNCHANGED <<astVars, legVars, extVars, auxVars>>
    \/ PostAgain /\ UNCHANGED <<astVars, legVars, extVars, auxVars>>

(***************************************************************************)
(* converter/ast_renderer_md.py: ast_to_html called twice on one tree.     *)
(* The renderer keeps nothing between calls; each call fetches the images  *)
(* again, and each fetch succeeds or fails on its own.                     *)
(***************************************************************************)
\* the trees parse_edxml_to_ast returns for the inputs of the AST pipeline
ParsedTrees ==
    {r.node : r \in {p \in {parse_edxml_to_ast(toks) : toks \in AstInputs} :
                         p.path # "raised"}}

\* text = None in a Node, kept as a text of one atom so that every text
\* field has the shape of a text
NoText == <<None>>

\* trees built by hand, with Node(...), that hold a text node without text
BuiltTrees ==
    {Node("element", "document", EmptyDict,
          <<Node("element", "paragraph", EmptyDict, <<TextNode(t, 1)>>, <<>>, 2),
            Node("element", "paragraph", EmptyDict, <<TextNode(<<"b">>, 3)>>, <<>>, 4)>>,
          <<>>, 5) : t \in {NoText, <<"a">>}}
    \cup {Node("element", "paragraph", EmptyDict,
               <<TextNode(<<"a">>, 1),
                 Node("element", tag, EmptyDict, <<TextNode(NoText, 2)>>, <<>>, 3),
                 TextNode(<<"c">>, 4)>>,
               <<>>, 5) : tag \in {"bold", "break", "snippet", "snippet-file"}}
    \cup {Node("element", "snippet", EmptyDict,
               <<Node("element", "snippet-file", EmptyDict, <<TextNode(NoText, 1)>>,
                      <<>>, 2)>>,
               <<>>, 3),
          Node("element", "web-snippet", EmptyDict,
               <<Node("element", "web-snippet-file", <<<<"language", <<"html">>>>>>,
                      <<TextNode(NoText, 1)>>, <<>>, 2)>>,
               <<>>, 3)}

RenInputs == ParsedTrees \cup BuiltTrees

\* "".join(c.text for c in child.children if c.kind == "text") raises
\* TypeError when one of these texts is None
JoinRaises(node, fileTag) ==
    \E i \in 1..Len(node.children) :
        /\ node.children[i].kind = "element"
        /\ node.children[i].tag = fileTag
        /\ \E j \in 1..Len(node.children[i].children) :
              /\ node.children[i].children[j].kind = "text"
              /\ node.children[i].children[j].text = NoText

\* Does _render_node(node) raise?  html.escape raises AttributeError on a
\* text that is None.  The rules have no handler but the heading's, for
\* ValueError, and _render_children lets the exception of a child through,
\* so a rule that renders its children raises when one of them does.
RECURSIVE Raises(_)
Raises(node) ==
    LET tag == IF node.tag = None THEN "" ELSE node.tag
    IN  IF node.kind = "text" THEN node.text = NoText
        ELSE CASE tag \in {"break", "image"} -> FALSE
               [] tag = "snippet" -> JoinRaises(node, "snippet-file")
               [] tag = "web-snippet" -> JoinRaises(node, "web-snippet-file")
               [] OTHER -> \E i \in 1..Len(node.children) : Raises(node.children[i])

RenIdle ==
    /\ renTree = NoNode
    /\ renPc = "idle"
    /\ renFirst = <<>>
    /\ renSecond = <<>>

RenInit ==
    /\ renTree \in RenInputs
    /\ renPc = "start"
    /\ renFirst = <<>>
    /\ renSecond = <<>>

\* first = ast_to_html(tree), unless the call raises
RenderFirst ==
    /\ renPc = "start"
    /\ IF Raises(renTree)
       THEN renPc' = "raised" /\ renFirst' = renFirst
       ELSE /\ \E net \in SUBSET ImageSrcs : renFirst' = ast_to_html(renTree, net)
            /\ renPc' = "once"
    /\ UNCHANGED <<renTree, renSecond>>

\* second = ast_to_html(tree), later in the same run
RenderSecond ==
    /\ renPc = "once"
    /\ \E net \in SUBSET ImageSrcs : renSecond' = ast_to_html(renTree, net)
    /\ renPc' = "twice"
    /\ UNCHANGED <<renTree, renFirst>>

RenNext ==
    \/ RenderFirst /\ UNCHANGED <<astVars, legVars, postVars, imgVars, shiftVars, reqVars, auxVars>>
    \/ RenderSecond /\ UNCHANGED <<astVars, legVars, postVars, imgVars, shiftVars, reqVars, auxVars>>

(***************************************************************************)
(* ed_client.py: EdClient._download_image_bytes and the resolve closure    *)
(* returned by make_image_resolver, next to the image rule of the          *)
(* renderer, in one export run.  The file system accepts every write.      *)
(***************************************************************************)
\* mimetypes.guess_type(src)[0], by the suffix of the path
guess_type(src) ==
    IF src \in {<<"http://x/y.png">>, <<"http://x/z.png">>} THEN "image/png" ELSE None

\* mimetypes.guess_extension(mime)
guess_extension(mime) ==
    CASE mime = "image/png" -> ".png"
      [] mime = "image/gif" -> ".gif"
      [] OTHER -> None

\* filetype.guess(content): the kind the first bytes give away; no kind is
\* a kind without mime and extension
filetype_guess(content) ==
    IF content = "GIF89a" THEN [mime |-> "image/gif", extension |-> "gif"]
    ELSE [mime |-> None, extension |-> None]

\* base64.b64encode(content).decode("ascii")
b64encode(content) ==
    CASE content = "GIF89a" -> "R0lGODlh"
      [] content = "bytes" -> "Ynl0ZXM="

\* os.path.splitext(urlparse(src).path)[1].lower()
UrlSuffix(src) ==
    IF src \in {<<"http://x/y.png">>, <<"http://x/z.png">>} THEN ".png" ELSE ""

\* what requests.get(src) does in one call: it raises, or answers with a
\* body and perhaps a Content-Type header
FetchFailed == [ok |-> FALSE, content |-> None, content_type |-> None]

Responses ==
    {FetchFailed,
     [ok |-> TRUE, content |-> "bytes", content_type |-> None],
     [ok |-> TRUE, content |-> "GIF89a", content_type |-> None],
     [ok |-> TRUE, content |-> "GIF89a", content_type |-> "image/gif"],
     [ok |-> TRUE, content |-> "bytes", content_type |-> "image/x-foo"]}

\* an exception that no handler stops
Escapes(raising) == raising

\* try: ... except Exception: around a fetch: does the exception of a
\* failed fetch leave the function?
ExceptException(raising) == FALSE

\* EdClient._download_image_bytes(src) when the fetch, if made, meets resp:
\* what it returns, the cache it leaves, whether it went to the network,
\* and whether an exception leaves it
_download_image_bytes(image_cache, src, resp) ==
    IF src \in DictKeys(image_cache)
    THEN [download |-> Get(image_cache, src, None), cache |-> image_cache,
          fetched |-> FALSE, raised |-> FALSE]
    ELSE IF resp.ok
    THEN [download |-> <<resp.content, resp.content_type>>,
          cache |-> DictSet(image_cache, src, <<resp.content, resp.content_type>>),
          fetched |-> TRUE, raised |-> FALSE]
    ELSE [download |-> None, cache |-> image_cache, fetched |-> TRUE,
          raised |-> ExceptException(TRUE)]

\* header_mime.startswith("image/")
IsImageMime(mime) == mime \in {"image/png", "image/gif", "image/x-foo"}

_infer_ext(src, content, header_mime) ==
    IF header_mime # None /\ guess_extension(header_mime) # None
    THEN <<guess_extension(header_mime)>>
    ELSE IF header_mime # None /\ IsImageMime(header_mime)
    THEN <<".jpg">>
    ELSE IF guess_type(src) # None /\ guess_extension(guess_type(src)) # None
    THEN <<guess_extension(guess_type(src))>>
    ELSE IF filetype_guess(content).extension # None
    THEN <<".", filetype_guess(content).extension>>
    ELSE IF UrlSuffix(src) \notin {"", ".bin", ".dat"}
    THEN <<UrlSuffix(src)>>
    ELSE <<".jpg">>

\* mode = (mode or "base64").lower()
ResolverMode(mode) == LowerAtom(IF mode \in {None, ""} THEN "base64" ELSE mode)

\* a numbering that gives every file the same number
FirstNumber(n) == <<"0", "0", "1">>

\* f"{n:03d}"
ThreeDigits(n) ==
    IF n < 10 THEN <<"0", "0">> \o IntText(n)
    ELSE IF n < 100 THEN <<"0">> \o IntText(n)
    ELSE IntText(n)

\* os.path.relpath(image_dir / filename, markdown_dir or image_dir), for an
\* image_dir "images" inside the markdown_dir
RelPath(dirs, filename) ==
    IF dirs = "both" THEN <<"images/">> \o filename ELSE filename

\* a cache that is never found to hold anything
NeverHit(cache, src) == FALSE

\* src in cache
CacheHit(cache, src) == src \in DictKeys(cache)

\* resolve(src) when the fetch, if made, meets resp
resolve(mode, dirs, cache, image_cache, src, resp) ==
    IF src = <<>>
    THEN [raised |-> FALSE, result |-> <<>>, cache |-> cache,
          image_cache |-> image_cache, fetched |-> FALSE, file |-> <<>>]
    ELSE IF CacheHit(cache, src)
    THEN [raised |-> FALSE, result |-> Get(cache, src, None), cache |-> cache,
          image_cache |-> image_cache, fetched |-> FALSE, file |-> <<>>]
    ELSE
        LET d == _download_image_bytes(image_cache, src, resp)
            content == d.download[1]
            header_mime == d.download[2]
            mime == IF header_mime # None THEN header_mime
                    ELSE IF guess_type(src) # None THEN guess_type(src)
                    ELSE IF filetype_guess(content).mime # None
                    THEN filetype_guess(content).mime
                    ELSE "application/octet-stream"
            filename == <<"img">> \o ThreeDigits(Len(cache) + 1)
                            \o _infer_ext(src, content, header_mime)
            downloads == mode = "base64" \/ (mode = "file" /\ dirs # "none")
            result ==
                IF downloads /\ d.download # None
                THEN IF mode = "base64"
                     THEN <<"data:", mime, ";base64,", b64encode(content)>>
                     ELSE RelPath(dirs, filename)
                ELSE src
            raised == downloads /\ d.raised
        IN  [raised |-> raised,
             result |-> IF raised THEN None ELSE result,
             cache |-> IF raised THEN cache ELSE DictSet(cache, src, result),
             image_cache |-> IF downloads THEN d.cache ELSE image_cache,
             fetched |-> downloads /\ d.fetched,
             \* target.write_bytes(content): the name of the file written
             file |-> IF mode = "file" /\ downloads /\ d.download # None
                      THEN filename ELSE <<>>]

\* the modes a resolver is made with, and the directories that go with them
ResolverConfigs ==
    {<<m, "none">> : m \in {None, "url", "URL", "base64", "file", "zip"}}
    \cup {<<"file", d>> : d \in {"image_dir", "both"}}

ResolveSrcs == ImageSrcs \cup {<<"http://x/i">>, <<>>}

\* a document with an image and text after it
ImageTree(src) ==
    parse_edxml_to_ast(<<Open("paragraph", <<>>), Open("image", <<<<"src", src>>>>),
                         Close("image"), Text(<<"a">>), Close("paragraph")>>).node

ImgIdle ==
    /\ imgMode = "none"
    /\ imgDirs = "none"
    /\ imgCache = EmptyDict
    /\ imageCache = EmptyDict
    /\ imgLog = <<>>

\* resolve = client.make_image_resolver(mode, image_dir=..., markdown_dir=...)
\* on a client that is new or has served another resolver before
ImgInit ==
    /\ \E c \in ResolverConfigs : imgMode = ResolverMode(c[1]) /\ imgDirs = c[2]
    /\ imgCache = EmptyDict
    /\ imageCache \in {EmptyDict, <<<<<<"http://x/y.png">>, <<"bytes", None>>>>>>}
    /\ imgLog = <<>>

\* one call resolve(src)
Resolve ==
    /\ imgMode # "none"
    /\ Len(imgLog) < MaxCalls
    /\ \E src \in ResolveSrcs, resp \in Responses :
          LET r == resolve(imgMode, imgDirs, imgCache, imageCache, src, resp)
          IN  /\ imgCache' = r.cache
              /\ imageCache' = r.image_cache
              /\ imgLog' = Append(imgLog,
                     [op |-> "resolve", src |-> src, fetched |-> r.fetched,
                      ok |-> r.fetched /\ resp.ok, raised |-> r.raised,
                      out |-> r.result, file |-> r.file])
    /\ UNCHANGED <<imgMode, imgDirs>>

\* one call ast_to_html(tree) on a document with an image: the image rule
\* calls _download_image_as_data_uri, whatever resolver the run has made
RenderImage ==
    /\ imgMode # "none"
    /\ Len(imgLog) < MaxCalls
    /\ \E src \in ImageSrcs, ok \in BOOLEAN :
          imgLog' = Append(imgLog,
              [op |-> "render", src |-> src, fetched |-> TRUE, ok |-> ok,
               raised |-> FALSE,
               out |-> ast_to_html(ImageTree(src), IF ok THEN {src} ELSE {}),
               file |-> <<>>])
    /\ UNCHANGED <<imgMode, imgDirs, imgCache, imageCache>>

ImgNext ==
    \/ Resolve /\ UNCHANGED <<astVars, legVars, postVars, renVars, shiftVars, reqVars, auxVars>>
    \/ RenderImage /\ UNCHANGED <<astVars, legVars, postVars, renVars, shiftVars, reqVars, auxVars>>

(***************************************************************************)
(* converters.py and api_based.py: shift_markdown_headings, the same       *)
(* function in both files.  Its text is a sequence of characters.          *)
(***************************************************************************)
\* the end of the run of characters that satisfy P and start at i
RunEnd(s, i, P(_)) == SetMin({j \in i..(Len(s) + 1) : j = Len(s) + 1 \/ ~P(s[j])})

IsHash(c) == c = "#"

NotNewline(c) == c # "\n"

\* "#" * n, empty for n <= 0
Hashes(n) == [k \in 1..n |-> "#"]

\* ^(#{1,6})\s+ matches at i: i starts a line, one to six hashes follow,
\* and the character after them is whitespace
HeadingMatchAt(s, i) ==
    /\ i = 1 \/ s[i - 1] = "\n"
    /\ RunEnd(s, i, IsHash) - i \in 1..6
    /\ RunEnd(s, i, IsHash) <= Len(s)
    /\ IsSpaceChar(s[RunEnd(s, i, IsHash)])

\* re.sub(r"^(#{1,6})\s+(.*)$", _repl, md, flags=re.MULTILINE) from i on:
\* \s+ takes all the whitespace after the hashes, newlines too, and (.*)
\* the rest of the line it ends in
RECURSIVE ShiftFrom(_, _, _)
ShiftFrom(md, i, offset) ==
    LET hits == {j \in i..Len(md) : HeadingMatchAt(md, j)}
    IN  IF hits = {} THEN SubSeq(md, i, Len(md))
        ELSE LET j == SetMin(hits)
                 hashEnd == RunEnd(md, j, IsHash)
                 spaceEnd == RunEnd(md, hashEnd, IsSpaceChar)
                 lineEnd == RunEnd(md, spaceEnd, NotNewline)
                 new_level == Min2((hashEnd - j) + offset, 6)
             IN  SubSeq(md, i, j - 1) \o Hashes(new_level) \o <<" ">>
                 \o SubSeq(md, spaceEnd, lineEnd - 1)
                 \o ShiftFrom(md, lineEnd, offset)

shift_markdown_headings(md, offset) == ShiftFrom(md, 1, offset)

ShiftAlphabet == {"#", " ", "\n", "a"}

\* every short text, and a heading line of each level from 1 to 7
ShiftInputs ==
    UNION {[1..n -> ShiftAlphabet] : n \in 0..MaxShiftLen}
    \cup {Hashes(k) \o <<" ", "a", "\n">> \o Hashes(k) \o <<" ", "b">> : k \in 1..7}

ShiftIdle ==
    /\ shiftIn = <<>>
    /\ shiftOffset = 0
    /\ shiftPc = "idle"
    /\ shiftOut = <<>>

ShiftInit ==
    /\ shiftIn \in ShiftInputs
    /\ shiftOffset \in 0..MaxOffset
    /\ shiftPc = "start"
    /\ shiftOut = <<>>

\* out = shift_markdown_headings(md, offset)
ShiftHeadings ==
    /\ shiftPc = "start"
    /\ shiftOut' = shift_markdown_headings(shiftIn, shiftOffset)
    /\ shiftPc' = "done"
    /\ UNCHANGED <<shiftIn, shiftOffset>>

ShiftNext ==
    ShiftHeadings /\ UNCHANGED <<astVars, legVars, postVars, renVars, imgVars, reqVars, auxVars>>

(***************************************************************************)
(* ed_client.py and api_based.py: request(), the same loop in both files;  *)
(* they differ in the exception raised for a bad status.  One action is    *)
(* one pass of the loop body, with its HTTP attempt.                       *)
(***************************************************************************)
\* the status codes a response may carry
Statuses == {200, 204, 299, 301, 404, 429, 500, 599}

\* what requests.request does in one attempt: it raises, or it answers
Outcomes ==
    {[exc |-> TRUE, status |-> 0]} \cup {[exc |-> FALSE, status |-> c] : c \in Statuses}

\* a success test that knows one status only
IsOk200(status) == status = 200

\* 200 <= resp.status_code <= 299
IsSuccess(status) == 200 <= status /\ status <= 299

\* resp.status_code == 429 or 500 <= resp.status_code <= 599
IsTransient(status) == status = 429 \/ (500 <= status /\ status <= 599)

\* the exception raised for a bad status
BadStatusError(impl) == IF impl = "ed_client" THEN "EdApiError" ELSE "Exception"

ReqIdle ==
    /\ reqImpl = "none"
    /\ reqRetries = 0
    /\ reqAttempt = 0
    /\ reqPc = "idle"
    /\ reqLog = <<>>
    /\ reqError = None

\* request(method, url, retries=...) is called: last_exception = None and
\* the loop starts at attempt 1
ReqInit ==
    /\ reqImpl \in {"ed_client", "api_based"}
    /\ reqRetries \in 0..MaxRetries
    /\ reqAttempt = 1
    /\ reqPc = "loop"
    /\ reqLog = <<>>
    /\ reqError = None

\* one pass of the loop body: the attempt meets outcome o
ReqAttempt ==
    /\ reqPc = "loop"
    /\ reqAttempt <= reqRetries
    /\ \E o \in Outcomes :
          /\ reqLog' = Append(reqLog, o)
          /\ IF ~o.exc /\ IsSuccess(o.status)
             THEN \* return resp
                  reqPc' = "returned" /\ UNCHANGED <<reqAttempt, reqError>>
             ELSE IF ~o.exc /\ IsTransient(o.status) /\ reqAttempt < reqRetries
             THEN \* sleep and continue, from inside the try block
                  reqPc' = "loop" /\ reqAttempt' = reqAttempt + 1 /\ UNCHANGED reqError
             ELSE \* the attempt raised, or a bad status is raised; the
                  \* handler retries or raises again
                  /\ reqError' = IF o.exc THEN "RequestException"
                                 ELSE BadStatusError(reqImpl)
                  /\ IF reqAttempt < reqRetries
                     THEN reqPc' = "loop" /\ reqAttempt' = reqAttempt + 1
                     ELSE reqPc' = "raised" /\ UNCHANGED reqAttempt
    /\ UNCHANGED <<reqImpl, reqRetries>>

\* the loop ends without a return: raise last_exception, or RuntimeError
ReqLoopEnds ==
    /\ reqPc = "loop"
    /\ reqAttempt > reqRetries
    /\ reqPc' = "raised"
    /\ reqError' = IF reqError # None THEN reqError ELSE "RuntimeError"
    /\ UNCHANGED <<reqImpl, reqRetries, reqAttempt, reqLog>>

ReqNext ==
    \/ ReqAttempt /\ UNCHANGED <<astVars, legVars, postVars, renVars, imgVars, shiftVars, auxVars>>
    \/ ReqLoopEnds /\ UNCHANGED <<astVars, legVars, postVars, renVars, imgVars, shiftVars, auxVars>>

(***************************************************************************)
(* config.py: get_image_mode.  A configuration is what tomllib and         *)
(* _deep_merge_dict can produce: the export item and its image_mode item   *)
(* may be absent or hold a value of any TOML type.                         *)
(***************************************************************************)
\* a configuration value: text for a string; truthy is bool(value)
Absent == [type |-> "absent", text |-> <<>>, truthy |-> FALSE]
Str(s) == [type |-> "str", text |-> s, truthy |-> s # <<>>]
NonStr(t, b) == [type |-> t, text |-> <<>>, truthy |-> b]

ModeAlphabet == {" ", "\t", "base64", "BASE64", "file", "File", "url", "URL", "x"}

ModeTexts == UNION {[1..n -> ModeAlphabet] : n \in 0..MaxModeLen}

\* the values an image_mode item may hold
ModeValues ==
    {Absent} \cup {Str(t) : t \in ModeTexts}
    \cup {NonStr(t, b) : t \in {"int", "bool", "list"}, b \in BOOLEAN}

\* the configurations: export absent, a table with an image_mode item, or a
\* value that is not a table
Configs ==
    {[export |-> "table", image_mode |-> v] : v \in ModeValues}
    \cup {[export |-> e, image_mode |-> Absent] : e \in {"absent", "str", "int"}}

\* {"base64", "file", "url"}
ImageModes == {<<"base64">>, <<"file">>, <<"url">>}

\* DEFAULT_CONFIG["export"]["image_mode"]
DefaultImageMode == <<"base64">>

AttributeError == [raised |-> TRUE, mode |-> <<>>]

get_image_mode(c) ==
    IF c.export \notin {"absent", "table"}
    THEN \* cfg.get("export", {}) is not a dict: it has no get
         AttributeError
    ELSE LET item == IF c.export = "absent" THEN Str(<<>>)
                     ELSE IF c.image_mode.type = "absent" THEN Str(<<>>)
                     ELSE c.image_mode
             \* item or ""
             mode == IF item.truthy THEN item ELSE Str(<<>>)
         IN  IF mode.type # "str"
             THEN \* mode.lower() on a value that is not a string
                  AttributeError
             ELSE LET m == Strip(LowerText(mode.text))
                  IN  [raised |-> FALSE,
                       mode |-> IF m \in ImageModes THEN m ELSE DefaultImageMode]

CfgIdle ==
    /\ cfg = [export |-> "absent", image_mode |-> Absent]
    /\ cfgPc = "idle"
    /\ cfgOut = AttributeError

CfgInit == cfg \in Configs /\ cfgPc = "call" /\ cfgOut = AttributeError

GetImageMode ==
    /\ cfgPc = "call"
    /\ cfgOut' = get_image_mode(cfg)
    /\ cfgPc' = "done"
    /\ UNCHANGED cfg

CfgNext ==
    GetImageMode /\ UNCHANGED notCfg


(***************************************************************************)
(* ed_client.py: two calls of resolve on one resolver in file mode, made   *)
(* by two threads with no lock between them.  The closure has no lock and  *)
(* a thread may be suspended between any two statements, so each statement *)
(* group that reads or writes the shared cache or the directory is one     *)
(* step.                                                                   *)
(***************************************************************************)
Threads == {1, 2}

RaceSrcs == ImageSrcs \cup {<<"http://x/i">>}

RaceIdle ==
    /\ raceDirs = "none"
    /\ raceSrc = <<>>
    /\ racePc = <<>>
    /\ raceGot = <<>>
    /\ raceFile = <<>>
    /\ raceOut = <<>>
    /\ raceCache = EmptyDict
    /\ raceImages = EmptyDict
    /\ raceDisk = EmptyDict

\* two threads are about to call resolve, each with its own source; the
\* resolver may have resolved other sources before
RaceInit ==
    /\ raceDirs \in {"image_dir", "both"}
    /\ raceSrc \in {f \in [Threads -> RaceSrcs] : f[1] # f[2]}
    /\ racePc = [t \in Threads |-> "call"]
    /\ raceGot = [t \in Threads |-> None]
    /\ raceFile = [t \in Threads |-> <<>>]
    /\ raceOut = [t \in Threads |-> <<>>]
    /\ \E n \in 0..MaxCached :
          raceCache = [k \in 1..n |-> <<<<"http://x/old", IntText(k)>>, <<"old">>>>]
    /\ raceImages = EmptyDict
    /\ raceDisk = EmptyDict

\* lines 175-180: src is not empty; a source found in the cache is returned
RaceLookup(t) ==
    /\ raceDirs # "none"
    /\ racePc[t] = "call"
    /\ IF CacheHit(raceCache, raceSrc[t])
       THEN /\ raceOut' = [raceOut EXCEPT ![t] = Get(raceCache, raceSrc[t], None)]
            /\ racePc' = [racePc EXCEPT ![t] = "done"]
       ELSE /\ racePc' = [racePc EXCEPT ![t] = "download"]
            /\ UNCHANGED raceOut
    /\ UNCHANGED <<raceDirs, raceSrc, raceGot, raceFile, raceCache, raceImages, raceDisk>>

\* lines 197-199: download = self._download_image_bytes(src)
RaceDownload(t) ==
    /\ raceDirs # "none"
    /\ racePc[t] = "download"
    /\ \E resp \in Responses :
          LET d == _download_image_bytes(raceImages, raceSrc[t], resp)
          IN  /\ raceImages' = d.cache
              /\ raceGot' = [raceGot EXCEPT ![t] = d.download]
              /\ racePc' = [racePc EXCEPT ![t] =
                     IF d.download # None THEN "name" ELSE "store"]
    /\ UNCHANGED <<raceDirs, raceSrc, raceFile, raceOut, raceCache, raceDisk>>

\* lines 200-202: the file name, from the size the cache has now
RaceName(t) ==
    /\ raceDirs # "none"
    /\ racePc[t] = "name"
    /\ raceFile' = [raceFile EXCEPT ![t] =
           <<"img">> \o ThreeDigits(Len(raceCache) + 1)
               \o _infer_ext(raceSrc[t], raceGot[t][1], raceGot[t][2])]
    /\ racePc' = [racePc EXCEPT ![t] = "write"]
    /\ UNCHANGED <<raceDirs, raceSrc, raceGot, raceOut, raceCache, raceImages, raceDisk>>

\* lines 203-205: target.write_bytes(content); the directory remembers whose
\* image each file holds
RaceWrite(t) ==
    /\ raceDirs # "none"
    /\ racePc[t] = "write"
    /\ raceDisk' = DictSet(raceDisk, raceFile[t], raceSrc[t])
    /\ racePc' = [racePc EXCEPT ![t] = "store"]
    /\ UNCHANGED <<raceDirs, raceSrc, raceGot, raceFile, raceOut, raceCache, raceImages>>

\* lines 206-210: result, cache[src] = result, return result
RaceStore(t) ==
    /\ raceDirs # "none"
    /\ racePc[t] = "store"
    /\ LET result == IF raceFile[t] # <<>> THEN RelPath(raceDirs, raceFile[t])
                     ELSE raceSrc[t]
       IN  /\ raceCache' = DictSet(raceCache, raceSrc[t], result)
           /\ raceOut' = [raceOut EXCEPT ![t] = result]
    /\ racePc' = [racePc EXCEPT ![t] = "done"]
    /\ UNCHANGED <<raceDirs, raceSrc, raceGot, raceFile, raceImages, raceDisk>>

RaceNext ==
    \/ \E t \in Threads : RaceLookup(t) /\ UNCHANGED notRace
    \/ \E t \in Threads : RaceDownload(t) /\ UNCHANGED notRace
    \/ \E t \in Threads : RaceName(t) /\ UNCHANGED notRace
    \/ \E t \in Threads : RaceWrite(t) /\ UNCHANGED notRace
    \/ \E t \in Threads : RaceStore(t) /\ UNCHANGED notRace


(***************************************************************************)
(* converters.py and api_based.py: _convert_lists on its own, given any    *)
(* sequence of list tags, balanced or not, with text and list items        *)
(* between them.                                                           *)
(***************************************************************************)
ListAlphabet ==
    {Open("list", <<>>),
     Open("list", <<<<"style", <<"number">>>>>>),
     Open("list", <<<<"style", <<"Number">>>>>>),
     Open("list", <<<<"style", <<"bullet">>>>>>),
     Close("list"),
     Void("list", <<>>),
     Open("list-item", <<>>),
     Close("list-item"),
     Text(<<"a">>)}

ListInputs == UNION {[1..n -> ListAlphabet] : n \in 0..MaxListLen}

ListIdle == listIn = <<>> /\ listPc = "idle" /\ listOut = <<>>

ListInit == listIn \in ListInputs /\ listPc = "call" /\ listOut = <<>>

ConvertLists ==
    /\ listPc = "call"
    /\ listOut' = _convert_lists(listIn, 1, <<>>)
    /\ listPc' = "done"
    /\ UNCHANGED listIn

ListNext == ConvertLists /\ UNCHANGED notList


(***************************************************************************)
(* ed_client.py and api_based.py: safe_filename, the same function in both *)
(* files.  A name is a sequence of characters.                             *)
(***************************************************************************)
\* the characters of the class [\\/:*?"<>|]
SpecialChars == {"\\", "/", ":", "*", "?", "\"", "<", ">", "|"}

\* re.sub(r'[\\/:*?"<>|]', "_", name), one character of it
ReplaceSpecial(c) == IF c \in SpecialChars THEN "_" ELSE c

\* re.sub(r"\s+", " ", name), from position i on: every run of whitespace
\* becomes one space
RECURSIVE SquashSpace(_, _)
SquashSpace(s, i) ==
    IF i > Len(s) THEN <<>>
    ELSE IF IsSpaceChar(s[i])
    THEN <<" ">> \o SquashSpace(s, RunEnd(s, i, IsSpaceChar))
    ELSE <<s[i]>> \o SquashSpace(s, i + 1)

safe_filename(name) ==
    IF name = <<>> THEN <<"unnamed">>
    ELSE SquashSpace(MapSeq(Strip(name), ReplaceSpecial), 1)

NameAlphabet == {" ", "\t", "a", "/", "?", "|", "\\"}

NameInputs == UNION {[1..n -> NameAlphabet] : n \in 0..MaxNameLen}

NameIdle == nameIn = <<>> /\ namePc = "idle" /\ nameOut = <<>>

NameInit == nameIn \in NameInputs /\ namePc = "call" /\ nameOut = <<>>

SafeFilename ==
    /\ namePc = "call"
    /\ nameOut' = safe_filename(nameIn)
    /\ namePc' = "done"
    /\ UNCHANGED nameIn

NameNext == SafeFilename /\ UNCHANGED notName


(***************************************************************************)
(* exporter.py and api_based.py: save_lesson_markdown, called for one      *)
(* lesson after another of one course.  The directory tree is a mapping    *)
(* from file path to the text last written there.                          *)
(***************************************************************************)
\* a lesson of the course list: module is <<>> for a module_id that is not
\* an int, title is <<>> for a missing or empty title
Lesson(id, module, title) == [id |-> id, module |-> module, title |-> title]

\* a processed slide of a lesson_struct
Slide(type, title, index, content_md, explanation_md, file_url) ==
    [type |-> type, title |-> title, index |-> index, content_md |-> content_md,
     explanation_md |-> explanation_md, file_url |-> file_url]

\* the backquote character
Backquote == "BACKQUOTE"

QuizNote == <<"_Quiz slide: questions/responses not converted to markdown yet._">>

NotConverted(stype) ==
    <<"_Slide of type ", Backquote, stype, Backquote, " not converted (code/pdf/etc)._">>

\* Path(file_url).name
PathName(file_url) ==
    IF file_url = <<"http://x/f.pdf">> THEN <<"f.pdf">> ELSE file_url

\* the parts one slide adds, for the save_lesson_markdown of impl
SlideParts(impl, slide) ==
    LET stitle == IF slide.title # <<>> THEN slide.title
                  ELSE <<"S", "l", "i", "d", "e", " ">> \o IntText(slide.index)
        head == <<<<"#", " ">> \o stitle>>
        body == slide.content_md
        file_url == IF slide.file_url # <<>> THEN slide.file_url
                    ELSE <<"(missing pdf url)">>
    IN  IF slide.type = "document"
        THEN head \o (IF body = <<>> THEN <<>>
                      ELSE IF impl = "api_based"
                      THEN <<shift_markdown_headings(body, 1)>>
                      ELSE <<body>>)
        ELSE IF slide.type = "quiz" THEN head \o <<QuizNote>>
        ELSE IF impl = "exporter" /\ slide.type = "pdf"
        THEN head \o <<<<"[">> \o PathName(file_url) \o <<"](">> \o file_url \o <<")">>>>
        ELSE IF impl = "exporter" /\ slide.type = "code"
        THEN head \o (IF body = <<>> THEN <<>> ELSE <<body>>)
             \o (IF slide.explanation_md = <<>> THEN <<>>
                 ELSE <<<<"#", " ">> \o stitle \o <<" - Solution">>,
                        slide.explanation_md>>)
        ELSE head \o <<NotConverted(slide.type)>>

RECURSIVE LessonParts(_, _)
LessonParts(impl, slides) ==
    IF slides = <<>> THEN <<>>
    ELSE SlideParts(impl, Head(slides)) \o LessonParts(impl, Tail(slides))

\* md_text = "\n\n".join(parts) + "\n"
LessonMarkdown(impl, slides) ==
    JoinWith(LessonParts(impl, slides), <<"\n", "\n">>) \o <<"\n">>

\* dir / name, where an empty name adds nothing
PathJoin(dir, name) == IF name = <<>> THEN dir ELSE dir \o <<"/">> \o name

\* lines 125-136: file_path
LessonPath(map, lesson) ==
    LET module_name == IF lesson.module # <<>>
                       THEN Get(map, lesson.module[1],
                                <<"module_">> \o IntText(lesson.module[1]))
                       ELSE <<"module_unknown">>
        lesson_title == IF lesson.title # <<>> THEN lesson.title
                        ELSE <<"lesson_">> \o IntText(lesson.id)
    IN  PathJoin(PathJoin(<<"root">>, safe_filename(module_name)),
                 safe_filename(lesson_title) \o <<".md">>)

\* module_name_map of a course
ModuleMaps ==
    {EmptyDict,
     <<<<1, <<"m">>>>, <<2, <<"n">>>>>>,
     <<<<1, <<"m">>>>, <<2, <<"m", " ">>>>>>}

LessonModules == {<<>>, <<1>>, <<2>>}

LessonTitles == {<<>>, <<"a">>, <<"a", "/", "b">>, <<"a", "?", "b">>, <<"lesson_", "1">>}

LessonStructs ==
    {<<>>,
     <<Slide("document", <<"t">>, 1, <<"#", " ", "h">>, <<>>, <<>>),
       Slide("quiz", <<>>, 2, <<>>, <<>>, <<>>)>>,
     <<Slide("code", <<"c">>, 1, <<"x">>, <<"y">>, <<>>),
       Slide("pdf", <<>>, 2, <<>>, <<>>, <<"http://x/f.pdf">>)>>}

SaveIdle ==
    /\ saveImpl = "none"
    /\ saveMap = EmptyDict
    /\ saveLog = <<>>
    /\ saveDisk = EmptyDict

\* an export of a course begins: nothing is written yet
SaveInit ==
    /\ saveImpl \in {"exporter", "api_based"}
    /\ saveMap \in ModuleMaps
    /\ saveLog = <<>>
    /\ saveDisk = EmptyDict

\* save_lesson_markdown(course_root, module_name_map, lesson, lesson_struct)
\* for the next lesson of the course
SaveLessonMarkdown ==
    /\ saveImpl # "none"
    /\ Len(saveLog) < MaxLessons
    /\ \E module \in LessonModules, title \in LessonTitles, slides \in LessonStructs :
          LET lesson == Lesson(Len(saveLog) + 1, module, title)
              file_path == LessonPath(saveMap, lesson)
              md_text == LessonMarkdown(saveImpl, slides)
          IN  /\ saveDisk' = DictSet(saveDisk, file_path, md_text)
              /\ saveLog' = Append(saveLog,
                     [lesson |-> lesson, path |-> file_path, text |-> md_text])
    /\ UNCHANGED <<saveImpl, saveMap>>

SaveNext == SaveLessonMarkdown /\ UNCHANGED notSave


(***************************************************************************)
(* exporter.py: fetch_lesson_content, from the slide list of the lesson    *)
(* detail on.  One action is one pass of the loop over the slides.  The    *)
(* requests of a pass may fail; what the challenge request of a code slide *)
(* does is part of the slide.                                              *)
(***************************************************************************)
\* the parameters of converters.edxml_to_markdown
EdxmlToMarkdownParams == {"xml"}

\* a call that names the keyword kw is accepted
AcceptsKeyword(kw) == kw \in EdxmlToMarkdownParams

\* a slide of the lesson detail: whether its id is not null, the type its
\* detail carries, and for a code slide what becomes of its challenge
ApiSlide(hasId, type, challenge) == [hasId |-> hasId, type |-> type, challenge |-> challenge]

\* challenge_id is not an int; fetch_challenge_detail raises; the challenge
\* has no explanation; the challenge has one
ChallengeOutcomes == {"no_id", "fails", "no_explanation", "explanation"}

ApiSlides ==
    {ApiSlide(h, t, "no_id") : h \in BOOLEAN, t \in {"document", "quiz", "pdf", "html"}}
    \cup {ApiSlide(h, "code", c) : h \in BOOLEAN, c \in ChallengeOutcomes}

\* an entry of processed_slides; explanation_md is NoText where the entry
\* has no such field
Processed(id, type, explanation_md) ==
    [id |-> id, type |-> type, explanation_md |-> explanation_md]

FetchIdle ==
    /\ fetchSlides = <<>>
    /\ fetchI = 0
    /\ fetchPc = "idle"
    /\ fetchOut = <<>>
    /\ fetchError = None

\* lines 13-22: the lesson detail has arrived with its slides
FetchInit ==
    /\ fetchSlides \in UNION {[1..n -> ApiSlides] : n \in 0..MaxSlides}
    /\ fetchI = 1
    /\ fetchPc = "loop"
    /\ fetchOut = <<>>
    /\ fetchError = None

\* lines 77-87 of a code slide: explanation_md
ExplanationMd(slide) ==
    IF slide.challenge = "explanation" /\ AcceptsKeyword("image_resolver")
    THEN <<"md">>
    ELSE \* no int challenge_id, or an exception caught at line 88, or an
         \* empty explanation
         <<>>

\* lines 24-100: one pass of the loop, for the slide at fetchI
FetchSlide ==
    /\ fetchPc = "loop"
    /\ fetchI <= Len(fetchSlides)
    /\ LET s == fetchSlides[fetchI]
           raise(e) == /\ fetchPc' = "raised"
                       /\ fetchError' = e
                       /\ UNCHANGED <<fetchI, fetchOut>>
           append(entry) == /\ fetchOut' = Append(fetchOut, entry)
                            /\ fetchI' = fetchI + 1
                            /\ UNCHANGED <<fetchPc, fetchError>>
       IN  IF ~s.hasId
           THEN \* continue
                fetchI' = fetchI + 1 /\ UNCHANGED <<fetchPc, fetchOut, fetchError>>
           ELSE \E detail \in BOOLEAN, quiz \in BOOLEAN :
                  IF ~detail
                  THEN \* client.fetch_slide_detail raises
                       raise("RequestError")
                  ELSE IF s.type = "document"
                  THEN IF AcceptsKeyword("image_resolver")
                       THEN append(Processed(fetchI, s.type, NoText))
                       ELSE raise("TypeError")
                  ELSE IF s.type = "quiz"
                  THEN IF quiz THEN append(Processed(fetchI, s.type, NoText))
                       ELSE \* client.fetch_quiz_data raises
                            raise("RequestError")
                  ELSE IF s.type = "code"
                  THEN IF AcceptsKeyword("image_resolver")
                       THEN append(Processed(fetchI, s.type, ExplanationMd(s)))
                       ELSE raise("TypeError")
                  ELSE \* pdf, and every other type
                       append(Processed(fetchI, s.type, NoText))
    /\ UNCHANGED fetchSlides

\* lines 102-112: the loop is over, result is returned
FetchReturn ==
    /\ fetchPc = "loop"
    /\ fetchI > Len(fetchSlides)
    /\ fetchPc' = "returned"
    /\ UNCHANGED <<fetchSlides, fetchI, fetchOut, fetchError>>

FetchNext ==
    \/ FetchSlide /\ UNCHANGED notFetch
    \/ FetchReturn /\ UNCHANGED notFetch

(***************************************************************************)
(* Specifications.                                                         *)
(***************************************************************************)
\* no call of the three conversion machines is in progress
CoreIdle == AstIdle /\ LegacyIdle /\ PostIdle

\* no call of the other machines is in progress
ExtIdle == RenIdle /\ ImgIdle /\ ShiftIdle /\ ReqIdle

\* no call of the utility functions is in progress
AuxIdle == CfgIdle /\ RaceIdle /\ ListIdle /\ NameIdle /\ SaveIdle /\ FetchIdle

\* a call of the AST pipeline begins; nothing else runs
InitAst == AstInit /\ LegacyIdle /\ PostIdle /\ ExtIdle /\ AuxIdle

\* a call of edxml_to_markdown begins; nothing else runs
InitLegacy == AstIdle /\ LegacyInit /\ PostIdle /\ ExtIdle /\ AuxIdle

\* a call of the post-processor begins; nothing else runs
InitPost == AstIdle /\ LegacyIdle /\ PostInit /\ ExtIdle /\ AuxIdle

\* a tree is about to be rendered twice; nothing else runs
InitRen == CoreIdle /\ RenInit /\ ImgIdle /\ ShiftIdle /\ ReqIdle /\ AuxIdle

\* an image resolver has been made; nothing else runs
InitImg == CoreIdle /\ RenIdle /\ ImgInit /\ ShiftIdle /\ ReqIdle /\ AuxIdle

\* a call of shift_markdown_headings begins; nothing else runs
InitShift == CoreIdle /\ RenIdle /\ ImgIdle /\ ShiftInit /\ ReqIdle /\ AuxIdle

\* a call of request() begins; nothing else runs
InitReq == CoreIdle /\ RenIdle /\ ImgIdle /\ ShiftIdle /\ ReqInit /\ AuxIdle

\* a call of get_image_mode begins; nothing else runs
InitCfg ==
    CoreIdle /\ ExtIdle /\ CfgInit /\ RaceIdle /\ ListIdle /\ NameIdle /\ SaveIdle /\ FetchIdle

\* two threads are about to call resolve on one resolver; nothing else runs
InitRace ==
    CoreIdle /\ ExtIdle /\ CfgIdle /\ RaceInit /\ ListIdle /\ NameIdle /\ SaveIdle /\ FetchIdle

\* a call of _convert_lists begins; nothing else runs
InitList ==
    CoreIdle /\ ExtIdle /\ CfgIdle /\ RaceIdle /\ ListInit /\ NameIdle /\ SaveIdle /\ FetchIdle

\* a call of safe_filename begins; nothing else runs
InitName ==
    CoreIdle /\ ExtIdle /\ CfgIdle /\ RaceIdle /\ ListIdle /\ NameInit /\ SaveIdle /\ FetchIdle

\* an export of a course begins; nothing else runs
InitSave ==
    CoreIdle /\ ExtIdle /\ CfgIdle /\ RaceIdle /\ ListIdle /\ NameIdle /\ SaveInit /\ FetchIdle

\* a call of fetch_lesson_content begins; nothing else runs
InitFetch ==
    CoreIdle /\ ExtIdle /\ CfgIdle /\ RaceIdle /\ ListIdle /\ NameIdle /\ SaveIdle /\ FetchInit

SpecAst == InitAst /\ [][AstNext]_vars

SpecLegacy == InitLegacy /\ [][LegacyNext]_vars

SpecPost == InitPost /\ [][PostNext]_vars

SpecRen == InitRen /\ [][RenNext]_vars

SpecImg == InitImg /\ [][ImgNext]_vars

SpecShift == InitShift /\ [][ShiftNext]_vars

\* request() runs on one thread and every HTTP attempt ends, with a response
\* or with an exception: a pass of the loop that can be taken is taken
SpecReq == InitReq /\ [][ReqNext]_vars /\ WF_vars(ReqNext)

SpecCfg == InitCfg /\ [][CfgNext]_vars

SpecRace == InitRace /\ [][RaceNext]_vars

SpecList == InitList /\ [][ListNext]_vars

SpecName == InitName /\ [][NameNext]_vars

SpecSave == InitSave /\ [][SaveNext]_vars

SpecFetch == InitFetch /\ [][FetchNext]_vars

Init ==
    \/ InitAst \/ InitLegacy \/ InitPost \/ InitRen \/ InitImg \/ InitShift
    \/ InitReq \/ InitCfg \/ InitRace \/ InitList \/ InitName \/ InitSave \/ InitFetch

Next ==
    \/ AstNext \/ LegacyNext \/ PostNext \/ RenNext \/ ImgNext \/ ShiftNext
    \/ ReqNext \/ CfgNext \/ RaceNext \/ ListNext \/ NameNext \/ SaveNext \/ FetchNext

Spec == Init /\ [][Next]_vars

(***************************************************************************)
(* Order preservation and the tree invariants of the parser.               *)
(***************************************************************************)
RECURSIVE TreeEvents(_)
RECURSIVE ChildrenEvents(_, _)
\* the tree read in document order: where each element opens and closes, and
\* every character of text in between
TreeEvents(node) ==
    IF node.kind = "text"
    THEN [i \in 1..Len(node.text) |-> [k |-> "char", v |-> node.text[i]]]
    ELSE <<[k |-> "open", v |-> node.tag]>> \o ChildrenEvents(node.children, 1)
         \o <<[k |-> "close", v |-> node.tag]>>

ChildrenEvents(children, i) ==
    IF i > Len(children) THEN <<>>
    ELSE TreeEvents(children[i]) \o ChildrenEvents(children, i + 1)

TokenEvents(tok) ==
    CASE tok.k = "open" -> <<[k |-> "open", v |-> Lower(tok.tag)]>>
      [] tok.k = "close" -> <<[k |-> "close", v |-> Lower(tok.tag)]>>
      [] OTHER -> [i \in 1..Len(tok.text) |->
                      [k |-> "char", v |-> UnescapeChar(tok.text[i])]]

\* the input read in document order
InputEvents(toks) == Flatten(MapSeq(toks, TokenEvents))

\* the input from its first start tag to its last end tag
TrimOuter(toks) ==
    LET opens == {i \in 1..Len(toks) : toks[i].k = "open"}
        closes == {i \in 1..Len(toks) : toks[i].k = "close"}
    IN  IF opens = {} \/ closes = {} THEN <<>>
        ELSE SubSeq(toks, SetMin(opens), SetMax(closes))

\* what the parser read: the input itself, or the input inside <document>
ParsedInput ==
    IF parsePath = "strict" THEN TrimOuter(xml) ELSE Wrapped(xml)

\* the input holds paragraphs, bold runs and text only
PlainInput == \A i \in 1..Len(xml) : xml[i].k = "text" \/ xml[i].tag \in DocTags

\* the markup of one token of a plain input
TokenHtml(tok) ==
    CASE tok.k = "text" -> html_escape(html_unescape(tok.text))
      [] tok.k = "open" /\ Lower(tok.tag) = "paragraph" -> <<"<p>">>
      [] tok.k = "close" /\ Lower(tok.tag) = "paragraph" -> <<"</p>">>
      [] tok.k = "open" /\ Lower(tok.tag) = "bold" -> <<"<strong>">>
      [] tok.k = "close" /\ Lower(tok.tag) = "bold" -> <<"</strong>">>
      [] OTHER -> <<>>

RECURSIVE AllNodes(_)
RECURSIVE AllNodesOf(_, _)
\* every node of the tree, the root first
AllNodes(node) == <<node>> \o AllNodesOf(node.children, 1)

AllNodesOf(children, i) ==
    IF i > Len(children) THEN <<>>
    ELSE AllNodes(children[i]) \o AllNodesOf(children, i + 1)

\* names of the vocabulary that hold an upper-case letter
UpperCaseNames == {"Bold", "PARAGRAPH", "Level", "Language", "SRC"}

\* C10: every tree returned by parse_edxml_to_ast satisfies the tree
\* invariants: the root is an element node; a text node has no tag and no
\* children; an element node has a lowercased tag; no node object occurs twice
\* in the tree, so none is under two parents; for the empty input the root is
\* a document node with no children.
C10_TreeInvariants ==
    parsePath \in {"empty", "strict", "wrapped"} =>
        LET nodes == AllNodes(ast) IN
        /\ ast.kind = "element"
        /\ \A i \in 1..Len(nodes) :
              /\ nodes[i].kind \in {"element", "text"}
              /\ nodes[i].kind = "text" => nodes[i].tag = None /\ nodes[i].children = <<>>
              /\ nodes[i].kind = "element" => nodes[i].tag \notin UpperCaseNames
        /\ \A i, j \in 1..Len(nodes) : i # j => nodes[i].id # nodes[j].id
        /\ xml = <<>> => ast.tag = "document" /\ ast.children = <<>>

\* <Bold>..</Bold> with text and an element inside has been parsed
C10_Witness ==
    /\ astPc = "parsed"
    /\ parsePath = "strict"
    /\ xml[1].tag = "Bold"
    /\ ast.tag = "bold"
    /\ \E i, j \in 1..Len(ast.children) :
          ast.children[i].kind = "text" /\ ast.children[j].kind = "element"

(***************************************************************************)
(* The parser's error handling.                                            *)
(***************************************************************************)
\* C1: parse_edxml_to_ast never raises: whatever the input, the call returns
\* an element node, and when both the strict parse and the parse of the input
\* wrapped in <document> fail, it returns the empty document node.
C1_ParseNeverRaises ==
    astPc \notin {"idle", "start"} =>
        /\ parsePath # "raised"
        /\ ast.kind = "element"
        /\ (~fromstring(xml).ok /\ ~fromstring(Wrapped(xml)).ok)
              => ast = Node("element", "document", EmptyDict, <<>>, <<>>, 1)

(***************************************************************************)
(* The protected blocks of the regex pipeline.                             *)
(***************************************************************************)
\* the side tables of the call, web-snippets first
RegisteredBlocks == webBlocks \o spoilerBlocks

\* C2: the string returned by edxml_to_markdown holds no placeholder token
\* that was registered during the call, also when a web-snippet lies inside a
\* spoiler.
C2_NoDanglingToken ==
    legPc = "done" =>
        \A k \in 1..Len(RegisteredBlocks) : ~Contains(legMd, RegisteredBlocks[k][1])

\* the token is written at i and is not the beginning of a longer number
TokenAt(md, i, token) ==
    /\ StartsWithAt(md, i, token)
    /\ ~(i + Len(token) <= Len(md) /\ IsDigit(md[i + Len(token)]))

RECURSIVE ExactSubstitute(_, _, _)
\* md from i on, every token replaced by the fragment registered under it
ExactSubstitute(md, i, blocks) ==
    LET hits == {j \in i..Len(md) :
                    \E k \in 1..Len(blocks) : TokenAt(md, j, blocks[k][1])}
    IN  IF hits = {} THEN SubSeq(md, i, Len(md))
        ELSE LET j == SetMin(hits)
                 k == CHOOSE n \in 1..Len(blocks) : TokenAt(md, j, blocks[n][1])
             IN  SubSeq(md, i, j - 1) \o blocks[k][2]
                 \o ExactSubstitute(md, j + Len(blocks[k][1]), blocks)

\* C3: for any number of protected blocks, more than ten included, the tokens
\* are pairwise distinct and the substitution replaces each occurrence of a
\* token by the fragment registered under that very token.
C3_EachTokenItsFragment ==
    legPc = "substituted" =>
        /\ \A m, n \in 1..Len(RegisteredBlocks) :
              m # n => RegisteredBlocks[m][1] # RegisteredBlocks[n][1]
        /\ legMd = ExactSubstitute(legClean, 1, RegisteredBlocks)

\* the text right after lines 347-352 have replaced the placeholders
Substituted ==
    SubstituteBlocks(SubstituteBlocks(legClean, webBlocks), spoilerBlocks)

\* C4: the placeholders are replaced after all text transforms: a fragment
\* that the substitution has put into the Markdown is in the returned string
\* exactly as it was registered (the final strip can only take whitespace
\* off its ends).
C4_FragmentsUntouched ==
    legPc = "done" =>
        \A k \in 1..Len(RegisteredBlocks) :
            Contains(Substituted, RegisteredBlocks[k][2])
                => Contains(legMd, Strip(RegisteredBlocks[k][2]))

(***************************************************************************)
(* The protected blocks of the AST pipeline.                               *)
(***************************************************************************)
RECURSIVE ProtectedFragments(_)
\* the markup of every web-snippet and spoiler of the tree
ProtectedFragments(node) ==
    (IF node.kind = "element" /\ node.tag \in {"web-snippet", "spoiler"}
     THEN {Strip(_render_node(node, {}))} ELSE {})
    \cup UNION {ProtectedFragments(node.children[i]) : i \in 1..Len(node.children)}

\* C5: in the AST pipeline the markup handed to the converter holds a
\* placeholder and not the fragment of a web-snippet or spoiler, so the
\* returned Markdown holds the fragment as it was rendered, whatever the
\* converter did to its input.
C5_FragmentsBypassConverter ==
    (astPc \in {"converted", "done"} /\ convMode # "none") =>
        \A f \in ProtectedFragments(ast) :
            f # <<>> =>
                /\ ~Contains(convIn, f)
                /\ astPc = "done" => Contains(mdText, f)

(***************************************************************************)
(* The post-processor.                                                     *)
(***************************************************************************)
\* C6: the post-processor is idempotent: run on its own output it returns
\* that output.
C6_Idempotent == postPc = "twice" => postTwice = postOnce

\* line i lies between an opening fence line and its closing fence line
InsideFence(lines, i) ==
    /\ ~IsFence(lines[i])
    /\ Cardinality({j \in 1..(i - 1) : IsFence(lines[j])}) % 2 = 1
    /\ \E j \in (i + 1)..Len(lines) : IsFence(lines[j])

\* C7: every line between an opening and a closing fence line is a line of
\* the post-processor's output, unchanged.
C7_FencedLinesUnchanged ==
    postPc \in {"once", "twice"} =>
        LET lines == SplitLines(postIn)
            out == SplitLines(postOnce)
        IN  \A i \in 1..Len(lines) :
                InsideFence(lines, i) => \E k \in 1..Len(out) : out[k] = lines[i]

(***************************************************************************)
(* Headings, in both pipelines.                                            *)
(***************************************************************************)
\* the level a heading is to get: the integer of its level attribute, brought
\* into 1..6, and 1 when the attribute is missing or not an integer
ClaimedLevel(attrs) ==
    IF "level" \in DictKeys(attrs) /\ int(Get(attrs, "level", <<>>)).ok
    THEN Min2(6, Max2(1, int(Get(attrs, "level", <<>>)).val))
    ELSE 1

\* C8: every heading is rendered with a level in 1..6, the level attribute
\* clamped, a missing or non-integer level giving h1; no heading is left as an
\* unconverted heading tag. The first conjunct is the AST renderer, the second
\* the regex pipeline.
C8_HeadingLevels ==
    /\ (astPc \in {"rendered", "converted", "convRaised", "done"} /\ ast.tag = "heading")
          => StartsWithAt(htmlText, 1,
                 <<"<h">> \o IntText(ClaimedLevel(ast.attrs)) \o <<">">>)
    /\ legPc = "prepared" =>
          \A i \in 1..Len(htmlLike) :
              htmlLike[i].k \in {"open", "close", "void"}
                  => LowerTag(htmlLike[i].tag) # "heading"


\* C11: two calls of ast_to_html on the same tree within one run return the
\* same string, also when an image fetch succeeds in one call and fails in
\* the other.
C11_RenderDeterministic == renPc = "twice" => renSecond = renFirst

\* the calls of resolve in the log, by position
ResolveCalls == {i \in 1..Len(imgLog) : imgLog[i].op = "resolve"}

\* C12: on one resolver, whatever the mode and whichever fetches succeed or
\* fail, any two calls of resolve with the same src return the same string.
C12_SameSrcSameResult ==
    \A i, j \in ResolveCalls :
        imgLog[i].src = imgLog[j].src
            => /\ ~imgLog[i].raised /\ ~imgLog[j].raised
               /\ imgLog[i].out = imgLog[j].out

\* a source resolved twice by a resolver that downloads, the first time
\* while its fetch fails
C12_Witness ==
    \E i, j \in ResolveCalls :
        /\ i < j
        /\ imgLog[i].src = imgLog[j].src
        /\ imgLog[i].fetched /\ ~imgLog[i].ok
        /\ imgMode \in {"base64", "file"}

\* the calls in the log whose fetch was made and failed
FailedFetches == {i \in 1..Len(imgLog) : imgLog[i].fetched /\ ~imgLog[i].ok}

\* what ast_to_html gives for ImageTree(src) when the image tag carries src
\* itself and the text after the image is rendered
SrcPassedThrough(src) ==
    <<"<p>", "<img ", "src=\"">> \o src \o <<"\"", " ", "alt=\"\"", " />", "a", "</p>">>

\* C13: a failed image fetch is not fatal: resolve(src) in base64 and file
\* mode returns src itself and raises nothing, and the image rule of the
\* renderer emits src itself, raises nothing, and the rest of the document
\* is rendered.
C13_FailedFetchNotFatal ==
    \A i \in FailedFetches :
        /\ ~imgLog[i].raised
        /\ imgLog[i].op = "resolve" => imgLog[i].out = imgLog[i].src
        /\ imgLog[i].op = "render" => imgLog[i].out = SrcPassedThrough(imgLog[i].src)

\* a run in which a fetch failed under resolve, in a mode that downloads,
\* and a fetch failed under the renderer
C13_Witness ==
    /\ imgMode \in {"base64", "file"}
    /\ \E i \in FailedFetches : imgLog[i].op = "resolve"
    /\ \E i \in FailedFetches : imgLog[i].op = "render"

\* the <img> tag of ImageTree(src) with src itself as its source
ImgTagWithSrc(src) == <<"<img ", "src=\"">> \o src \o <<"\"", " ", "alt=\"\"", " />">>

\* C14: in a run whose image mode is url, rendering an image element emits
\* an <img> tag whose src is the original URL, and no fetch is made.
C14_UrlModeNoFetch ==
    imgMode = "url" =>
        \A i \in 1..Len(imgLog) :
            imgLog[i].op = "render" =>
                /\ Contains(imgLog[i].out, ImgTagWithSrc(imgLog[i].src))
                /\ ~imgLog[i].fetched

\* the part of it that holds: resolve itself, in url mode, returns src and
\* makes no fetch
UrlModeResolvePassesThrough ==
    imgMode = "url" =>
        \A i \in ResolveCalls :
            imgLog[i].out = imgLog[i].src /\ ~imgLog[i].fetched /\ ~imgLog[i].raised

\* C15: when the converter raises, ast_to_markdown and edxml_to_markdown
\* raise and return no Markdown; and the converter is not called when the
\* markup rendered for it is empty or whitespace.
C15_ConverterFailurePropagates ==
    /\ astPc = "convRaised" => convMode = "raise" /\ mdText = <<>>
    /\ legPc = "convRaised" => legConv = "raise" /\ legMd = <<>>
    /\ convMode # "none" => Strip(convIn) # <<>>
    /\ legConv # "none" => Strip(Ser(htmlLike)) # <<>>

\* the tree with every text node that has no text given the empty text:
\* what is left to render when such a node renders as nothing
RECURSIVE WithoutFailingNodes(_)
WithoutFailingNodes(node) ==
    IF node.kind = "text"
    THEN [node EXCEPT !.text = IF node.text = NoText THEN <<>> ELSE node.text]
    ELSE [node EXCEPT !.children =
             [i \in 1..Len(node.children) |-> WithoutFailingNodes(node.children[i])]]

\* C16: an error raised while rendering one node is caught at that node,
\* which then renders as nothing; its siblings and the rest of the
\* document are rendered and returned.
C16_NodeErrorsContained ==
    (renPc # "start" /\ Raises(renTree)) =>
        /\ renPc # "raised"
        /\ renFirst = ast_to_html(WithoutFailingNodes(renTree), {})

\* str.split("\n"): the lines of a text, an empty last line included
RECURSIVE LinesOf(_)
LinesOf(s) ==
    LET e == RunEnd(s, 1, NotNewline)
    IN  IF e > Len(s) THEN <<s>>
        ELSE <<SubSeq(s, 1, e - 1)>> \o LinesOf(SubSeq(s, e + 1, Len(s)))

\* the number of hashes a line starts with
LeadingHashes(line) == RunEnd(line, 1, IsHash) - 1

\* the line starts with one to six hashes and whitespace after them
IsHeadingLine(line) ==
    /\ LeadingHashes(line) \in 1..6
    /\ LeadingHashes(line) < Len(line)
    /\ IsSpaceChar(line[LeadingHashes(line) + 1])

\* C17: shift_markdown_headings(md, offset) rewrites each line that starts
\* with k hashes, 1 <= k <= 6, and whitespace into a line that starts with
\* min(k + offset, 6) hashes, line for line; and it makes no line that
\* starts with more than six hashes.
C17_HeadingsShifted ==
    shiftPc = "done" =>
        LET inLines == LinesOf(shiftIn)
            outLines == LinesOf(shiftOut)
        IN  /\ \A i \in 1..Len(inLines) :
                  IsHeadingLine(inLines[i]) =>
                      /\ i <= Len(outLines)
                      /\ LeadingHashes(outLines[i])
                             = Min2(LeadingHashes(inLines[i]) + shiftOffset, 6)
            /\ \A i \in 1..Len(outLines) :
                  LeadingHashes(outLines[i]) > 6
                      => \E j \in 1..Len(inLines) : inLines[j] = outLines[i]

\* the contents, unescaped and stripped, of the files of the web-snippet
\* toks whose language is one of langs
FileContents(toks, langs) == FilesOfLang(SnippetFiles(toks, 1), langs)

\* what the recognized files of the web-snippet toks assemble to: HTML, then
\* a style block if there is a CSS file, then a script block if there is a
\* JavaScript file
Assembled(toks) ==
    AssembleWebSnippet(FileContents(toks, {<<"html">>}),
                       FileContents(toks, {<<"css">>}),
                       FileContents(toks, {<<"js">>, <<"javascript">>}))

\* the fragment of the web-snippet toks
Fragment(toks) == Strip(Assembled(toks))

HasIframe(text) == Contains(LowerText(text), <<"<", "iframe">>)

\* a text without its whitespace
NoSpace(text) == SelectSeq(text, LAMBDA c : ~IsSpaceChar(c))

\* out is one iframe with a single-quoted srcdoc: the value between the quotes
SrcdocValue(out) == SubSeq(out, 4, Len(out) - 4)

IsWrapped(out) ==
    /\ Len(out) >= 7
    /\ SubSeq(out, 1, 3) = <<"\n", "\n", "<iframe srcdoc='">>
    /\ SubSeq(out, Len(out) - 3, Len(out)) = <<"' ", IframeStyle, "\n", "\n">>
    /\ \A i \in 4..Len(out) : out[i] # "<iframe srcdoc='"

\* out is what the web-snippet toks must render to
WebSnippetShape(toks, out) ==
    IF Assembled(toks) = <<>>
    THEN out = <<>>
    ELSE IF HasIframe(Fragment(toks))
    THEN out = <<"\n", "\n">> \o Fragment(toks) \o <<"\n", "\n">>
    ELSE /\ IsWrapped(out)
         /\ \A i \in 1..Len(SrcdocValue(out)) : SrcdocValue(out)[i] \notin {"'", "\n"}
         /\ NoSpace(Replace(SrcdocValue(out), <<"&#39;">>, <<"'">>))
                = NoSpace(Fragment(toks))

\* C18: a web-snippet renders to nothing when its recognized files assemble
\* to nothing (and then no placeholder is registered), to its fragment as it
\* is when the fragment holds "<iframe" in any case, and otherwise to one
\* iframe whose single-quoted srcdoc holds the fragment without a raw single
\* quote or a newline.
C18_WebSnippetShapes ==
    /\ (xml \in BareSnippets /\ astPc \notin {"start", "parsed", "raised"})
            => WebSnippetShape(xml, htmlText)
    /\ (legXml \in BareSnippets /\ legPc # "start")
            => IF webBlocks = <<>>
               THEN htmlLike = <<>> /\ WebSnippetShape(legXml, <<>>)
               ELSE /\ Len(webBlocks) = 1
                    /\ htmlLike = <<Text(webBlocks[1][1])>>
                    /\ WebSnippetShape(legXml, webBlocks[1][2])

\* a web-snippet whose fragment holds a single quote and a newline has been
\* wrapped, by the renderer of the AST pipeline or by the regex pipeline
C18_Witness ==
    \/ /\ xml \in BareSnippets /\ astPc = "rendered"
       /\ Contains(htmlText, <<"&#39;", " ", "a">>)
    \/ /\ legXml \in BareSnippets /\ legPc = "prepared" /\ Len(webBlocks) = 1
       /\ Contains(webBlocks[1][2], <<"&#39;", " ", "a">>)

\* the spellings of "number", in any case, that a style attribute may have
NumberSpellings == {<<"number">>, <<"Number">>}

\* the children of a list as the claim has them rendered: a list-item child
\* as a list-item wrapper around its own rendered content, in order
RECURSIVE ListInner(_)
ListInner(children) ==
    IF children = <<>> THEN <<>>
    ELSE LET child == Head(children)
         IN  (IF child.kind = "element" /\ child.tag = "list-item"
              THEN <<"<li>">> \o _render_children(child.children, {}) \o <<"</li>">>
              ELSE _render_node(child, {}))
             \o ListInner(Tail(children))

\* C19: a list whose style is "number" in any case renders as an ordered
\* list, a list with another style or none as an unordered list, and the
\* wrapper holds one list-item wrapper for each list-item child, in order,
\* around that child's rendered content.
C19_ListWrappers ==
    (astPc \notin {"start", "parsed", "raised"} /\ ast.kind = "element" /\ ast.tag = "list")
        => IF Get(ast.attrs, "style", <<>>) \in NumberSpellings
           THEN htmlText = <<"<ol>">> \o ListInner(ast.children) \o <<"</ol>">>
           ELSE htmlText = <<"<ul>">> \o ListInner(ast.children) \o <<"</ul>">>

\* a list with the style "Number" and two items has been rendered
C19_Witness ==
    /\ astPc = "rendered"
    /\ ast.tag = "list"
    /\ Get(ast.attrs, "style", <<>>) = <<"Number">>
    /\ htmlText = <<"<ol>", "<li>", "a", "</li>", "<li>", "b", "</li>", "</ol>">>

\* attempt i of the log met a 2xx response
Met2xx(i) == ~reqLog[i].exc /\ reqLog[i].status \in 200..299

\* at most retries attempts; a 2xx response is met by the last attempt only,
\* and exactly when the call has returned; a call that raised met none
RequestOutcome ==
    reqRetries >= 1 =>
        /\ Len(reqLog) <= reqRetries
        /\ \A i \in 1..Len(reqLog) :
              Met2xx(i) <=> (i = Len(reqLog) /\ reqPc = "returned")
        /\ reqPc = "returned" => Len(reqLog) >= 1 /\ Met2xx(Len(reqLog))
        /\ reqPc = "raised" => Len(reqLog) >= 1 /\ reqError # None

\* C20: request() with retries >= 1 makes at most retries HTTP attempts,
\* returns the first 2xx response without a further attempt, and raises
\* when no attempt meets a 2xx response; it always does one or the other.
C20_RequestRetries ==
    /\ []RequestOutcome
    /\ (reqPc = "loop" /\ reqRetries >= 1) ~> (reqPc \in {"returned", "raised"})

\* a call that returned a 2xx response on its last allowed attempt, after
\* attempts that failed
C20_Witness ==
    /\ reqPc = "returned"
    /\ reqRetries = 3
    /\ Len(reqLog) = 3
    /\ reqLog[1].exc
    /\ reqLog[2].status = 404

\* the image_mode item is a string that names a mode once lowercased and
\* trimmed
ValidMode(c) ==
    /\ c.export = "table"
    /\ c.image_mode.type = "str"
    /\ Strip(LowerText(c.image_mode.text)) \in ImageModes

\* C21: get_image_mode returns one of base64, file, url for every
\* configuration: a valid mode lowercased and trimmed, and base64 for a
\* missing, empty or invalid item, a value that is not a string included;
\* it never raises.
C21_ImageModeTotal ==
    cfgPc = "done" =>
        /\ ~cfgOut.raised
        /\ cfgOut.mode \in ImageModes
        /\ ValidMode(cfg) => cfgOut.mode = Strip(LowerText(cfg.image_mode.text))
        /\ ~ValidMode(cfg) => cfgOut.mode = <<"base64">>

\* attempt i of the log met a response whose status is neither 2xx, nor 429,
\* nor 5xx
MetOtherStatus(i) ==
    /\ ~reqLog[i].exc
    /\ reqLog[i].status \notin 200..299
    /\ reqLog[i].status # 429
    /\ reqLog[i].status \notin 500..599

\* C22: request() retries only on network exceptions, 429 and 5xx: an
\* attempt that meets any other non-2xx status is the last attempt of the
\* call, which raises.
C22_OtherStatusNotRetried ==
    \A i \in 1..Len(reqLog) :
        MetOtherStatus(i) => i = Len(reqLog) /\ reqPc = "raised"

\* the calls of resolve that wrote a file
FileWrites == {i \in ResolveCalls : imgLog[i].file # <<>>}

\* C24: in file mode, in any sequential series of resolve calls on one
\* resolver, distinct sources fetched successfully are written to distinct
\* file names, numbered from img001 in the order of the calls that reach
\* the cache, and no call writes to a file name that an earlier call of the
\* resolver wrote.
C24_DistinctFileNames ==
    /\ \A i, j \in FileWrites : i # j => imgLog[i].file # imgLog[j].file
    /\ \A i \in ResolveCalls :
          (imgMode = "file" /\ imgDirs # "none" /\ imgLog[i].fetched /\ imgLog[i].ok)
              => /\ i \in FileWrites
                 /\ imgLog[i].file[1] = "img"
                 /\ SubSeq(imgLog[i].file, 2, 4) \in
                        {ThreeDigits(n) : n \in 1..i}

\* two distinct sources, each fetched successfully and written by the same
\* resolver
C24_Witness ==
    \E i, j \in FileWrites :
        /\ i < j
        /\ imgLog[i].src # imgLog[j].src
        /\ imgLog[i].fetched /\ imgLog[i].ok
        /\ imgLog[j].fetched /\ imgLog[j].ok

\* C25: in any sequence of resolve calls on one resolver the network fetch
\* for a given src is made at most once, whether it succeeded or failed.
C25_FetchAtMostOnce ==
    \A i, j \in ResolveCalls :
        (i < j /\ imgLog[i].src = imgLog[j].src /\ imgLog[i].fetched)
            => ~imgLog[j].fetched

\* a source resolved again after its fetch failed, and a source resolved
\* again after its fetch succeeded, on resolvers that download
C25_Witness ==
    /\ imgMode \in {"base64", "file"}
    /\ imgDirs # "none" \/ imgMode = "base64"
    /\ \E i, j \in ResolveCalls :
          /\ i < j
          /\ imgLog[i].src = imgLog[j].src
          /\ imgLog[i].fetched

\* both threads have returned from resolve
BothReturned == racePc # <<>> /\ \A t \in Threads : racePc[t] = "done"

\* C23: two resolve calls for distinct sources that interleave on one
\* resolver in file mode never choose the same file name: neither image
\* overwrites the other and each returned path refers to its own image.
C23_NoSharedFileName ==
    BothReturned =>
        \A t, u \in Threads :
            (t # u /\ raceFile[t] # <<>> /\ raceFile[u] # <<>>)
                => /\ raceFile[t] # raceFile[u]
                   /\ Get(raceDisk, raceFile[t], None) = raceSrc[t]

IsListOpen(tok) == tok.k = "open" /\ tok.tag \in {"ol", "ul"}

IsListClose(tok) == tok.k = "close" /\ tok.tag \in {"ol", "ul"}

\* the list tags of the output, read with a stack of the lists they leave
\* open: every closing tag has the type of the last list still open, or is
\* </ul> when none is open, and no list is open at the end
RECURSIVE ClosedInOrder(_, _, _)
ClosedInOrder(out, i, open) ==
    IF i > Len(out) THEN open = <<>>
    ELSE IF IsListOpen(out[i]) THEN ClosedInOrder(out, i + 1, Append(open, out[i].tag))
    ELSE IF IsListClose(out[i])
    THEN IF open = <<>>
         THEN out[i].tag = "ul" /\ ClosedInOrder(out, i + 1, open)
         ELSE /\ out[i].tag = open[Len(open)]
              /\ ClosedInOrder(out, i + 1, SubSeq(open, 1, Len(open) - 1))
    ELSE ClosedInOrder(out, i + 1, open)

\* a tag of the input that opens a list: every list tag that is not a
\* closing tag
OpensList(tok) == tok.k \in {"open", "void"} /\ tok.tag = "list"

\* the number of lists the input leaves open at its end
StillOpen(toks) ==
    LET RECURSIVE depth(_)
        depth(n) == IF n = 0 THEN 0
                    ELSE IF OpensList(toks[n]) THEN depth(n - 1) + 1
                    ELSE IF toks[n].k = "close" /\ toks[n].tag = "list" /\ depth(n - 1) > 0
                    THEN depth(n - 1) - 1
                    ELSE depth(n - 1)
    IN  depth(Len(toks))

\* C26: for any sequence of opening and closing list tags, each closing tag
\* emitted by _convert_lists has the type of the most recently opened list
\* still open, a closing tag with no open list is emitted as </ul>, the
\* lists still open at the end are closed in reverse order of opening, and
\* the output never has more list openings than closings.
C26_ListStack ==
    listPc = "done" =>
        /\ ClosedInOrder(listOut, 1, <<>>)
        /\ Cardinality({i \in 1..Len(listOut) : IsListOpen(listOut[i])})
               <= Cardinality({i \in 1..Len(listOut) : IsListClose(listOut[i])})
        /\ Len(listOut) = Len(listIn) + StillOpen(listIn)
        /\ \A i \in 1..Len(listIn) :
              /\ OpensList(listIn[i])
                    => listOut[i] = Open(IF LowerText(TagAttr(listIn[i], "style")) = <<"number">>
                                         THEN "ol" ELSE "ul", <<>>)
              /\ listIn[i].tag # "list" => listOut[i] = listIn[i]

\* a numbered list closed inside a bullet list that stays open, and a
\* closing tag with no list open
C26_Witness ==
    /\ listPc = "done"
    /\ Len(listIn) = 4
    /\ listIn[1] = Close("list")
    /\ listIn[2] = Open("list", <<>>)
    /\ listIn[3] = Open("list", <<<<"style", <<"Number">>>>>>)
    /\ listIn[4] = Close("list")

\* C27: for every input string, empty and whitespace-only names included,
\* safe_filename returns a non-empty string with none of the characters
\* \ / : * ? " < > | and without leading or trailing whitespace.
C27_SafeFilename ==
    namePc = "done" =>
        /\ nameOut # <<>>
        /\ \A i \in 1..Len(nameOut) : nameOut[i] \notin SpecialChars
        /\ ~IsSpaceChar(nameOut[1])
        /\ ~IsSpaceChar(nameOut[Len(nameOut)])

\* C28: after save_lesson_markdown has been called for any sequence of
\* distinct lessons of one course, no two lessons were written to the same
\* file path and each lesson's Markdown is on disk.
C28_LessonsKeptApart ==
    \A i, j \in 1..Len(saveLog) :
        /\ i # j => saveLog[i].path # saveLog[j].path
        /\ Get(saveDisk, saveLog[i].path, <<>>) = saveLog[i].text

\* C29: shift_markdown_headings changes heading lines only: the output has
\* as many lines as the input, and every line that does not start with one
\* to six hashes and whitespace on that line is returned unchanged.
C29_OnlyHeadingLinesChange ==
    shiftPc = "done" =>
        LET inLines == LinesOf(shiftIn)
            outLines == LinesOf(shiftOut)
        IN  /\ Len(outLines) = Len(inLines)
            /\ \A i \in 1..Len(inLines) :
                  ~IsHeadingLine(inLines[i])
                      => i <= Len(outLines) /\ outLines[i] = inLines[i]

\* the positions of the slides that have an id, in the order of the list
RECURSIVE WithId(_, _)
WithId(slides, i) ==
    IF i > Len(slides) THEN <<>>
    ELSE (IF slides[i].hasId THEN <<i>> ELSE <<>>) \o WithId(slides, i + 1)

\* C30: when no request for a slide detail or for quiz data fails,
\* fetch_lesson_content returns one processed entry per slide that has an
\* id, in the order of the list and whatever the slide types; slides
\* without id are skipped; and a code slide whose challenge cannot be
\* fetched is recorded with an empty explanation.
C30_OneEntryPerSlide ==
    (fetchPc \in {"returned", "raised"} /\ fetchError # "RequestError") =>
        LET ids == WithId(fetchSlides, 1)
        IN  /\ fetchPc = "returned"
            /\ Len(fetchOut) = Len(ids)
            /\ \A k \in 1..Len(ids) :
                  /\ fetchOut[k].id = ids[k]
                  /\ fetchOut[k].type = fetchSlides[ids[k]].type
                  /\ (fetchOut[k].type = "code" /\ fetchSlides[ids[k]].challenge = "fails")
                        => fetchOut[k].explanation_md = <<>>

====
